---- MODULE Spec2Model ----
(***************************************************************************)
(* haulage: balance-triggered enforcement loop, usage commit protocol and  *)
(* kernel filter effector.                                                 *)
(*                                                                         *)
(* State: the relational store (static_ips, customers), the kernel FORWARD *)
(* chain (rules), the startup reconciliation, one subscriber aggregator    *)
(* task per subscriber IP and the topup poller.  Every database            *)
(* transaction is split where the code splits it: the SELECTs of LogUsage  *)
(* read committed data, its UPDATE+COMMIT is a later step, so other        *)
(* writers can commit in between (read committed / non-locking reads).     *)
(*                                                                         *)
(* The packet pipeline (ingress loop, one flow task per canonical          *)
(* five-tuple, subscriber tasks, flow-log writers) is modelled at the      *)
(* level of its maps and channels: every sync.Map call, channel send and   *)
(* deferred call of a task is a step of its own.                           *)
(***************************************************************************)
EXTENDS Integers, Sequences, FiniteSets, TLC

\* ---------------------------------------------------------------- bounds
MaxAmount == 2
MaxBalance == 2
MaxEvents == 1
MaxTopUps == 1
MaxActive == 1
MaxEndpoint == 2
MaxPackets == 2
MaxPayload == 1
MaxPort == 1
\* identical block rules for one address in the chain a previous run left
MaxRules == 2
\* concurrent LogDnsResponse calls, distinct answer triples among their events
MaxDnsCalls == 2
MaxTriples == 2

\* ------------------------------------------------------ program constants
TenMB == 10000000
FiveMB == 5000000
OneMB == 1000000
CommitAttempts == 3

\* ------------------------------------------------------------- universes
IPs == {"ip1", "ip2"}
IMSIs == {"imsi1", "imsi2"}
NoImsi == "none"
FlowTypes == {"LOCAL_UP", "LOCAL_DOWN", "EXT_UP", "EXT_DOWN"}
Amounts == 1..MaxAmount

\* static_ips tables the administrator may have installed
OwnAddress == [ip \in IPs |-> IF ip = "ip1" THEN "imsi1" ELSE "imsi2"]
Unmapped == [ip \in IPs |-> IF ip = "ip1" THEN "imsi1" ELSE NoImsi]
SharedAccount == [ip \in IPs |-> "imsi1"]

\* The addresses with traffic: MaxActive of them, the unmapped one among them.
ActiveSets(table) ==
    { S \in SUBSET IPs : /\ Cardinality(S) = MaxActive
                         /\ table = Unmapped => "ip2" \in S
                         /\ table # Unmapped => "ip1" \in S }

VARIABLES
    static_ips,     \* ip -> imsi (read-only for the core)
    active,         \* the subscriber addresses that have traffic in this run
    customers,      \* imsi -> [raw_up, raw_down, data_balance, bridged, enabled]
    rules,          \* ip -> number of REJECT rules in the FORWARD chain
    sync,           \* startup reconciliation (synchronizeFiltersToDb)
    agg,            \* ip -> subscriber aggregator task (aggregateUser)
    poll,           \* topup poller task (pollForReenabledUsers)
    evLeft,         \* usage events the ingress may still deliver
    topLeft,        \* external top-ups still to come
    lastOp,         \* history: the operation the last step completed, with its result
    startOK,        \* history: at the end of startup every zero-balance subscriber was blocked
    stop,           \* OnStop: the terminate signal and the caller's position
    pure,           \* one call of a function of the program: its input and its result
    dns,            \* the answers and dnsResponses tables and the LogDnsResponse calls
    ingress,        \* main: the packet loop, sendToFlowHandler, processingGroup.Wait
    flowHandlers,   \* sync.Map: canonical five-tuple -> channel of its flow task
    flowTask,       \* channel -> the flowHandler goroutine that receives from it
    userAggregators,\* sync.Map: subscriber endpoint -> channel of its aggregator
    userTask,       \* channel -> the aggregateUser goroutine that receives from it
    writers,        \* the LogFlowPeriodic goroutines that have not written yet
    flowlogs,       \* five-tuple -> bytes_a_to_b and bytes_b_to_a summed over its rows
    observed,       \* history: five-tuple -> payload bytes of the packets classified
    processed,      \* history: the stamp of the last event each task has processed
    processingGroup,\* sync.WaitGroup counter
    fault           \* history: a send hit a closed channel; a flow-log insert failed

\* the enforcement loop, its store and the kernel chain
coreVars == <<static_ips, active, customers, rules, sync, agg, poll, evLeft, topLeft, lastOp, startOK>>

\* the packet pipeline: ingress, flow tasks, subscriber tasks, flow-log writers
flowVars == <<ingress, flowHandlers, flowTask, userAggregators, userTask, writers,
              flowlogs, observed, processed, processingGroup, fault>>

\* the supervisor's shutdown; a function of the program applied to one input;
\* the packet pipeline
auxVars == <<stop, pure, dns, flowVars>>

vars == <<coreVars, auxVars>>

Max(a, b) == IF a > b THEN a ELSE b

NoRow == [raw_up |-> 0, raw_down |-> 0, data_balance |-> 0, bridged |-> FALSE, enabled |-> FALSE]
NoStatus == [cur |-> 0, prior |-> 0]
NoOp == [op |-> "none"]

\* ------------------------------------------------------------ the store
\* "select imsi from static_ips where ip=?"
LookupImsi(ip) == static_ips[ip]

\* SELECT ip, bridged FROM customers, static_ips WHERE ... AND enabled=1
QueryGlobalBridgedState ==
    { [Addr |-> ip, Bridged |-> customers[static_ips[ip]].bridged] :
        ip \in { i \in IPs : static_ips[i] # NoImsi /\ customers[static_ips[i]].enabled } }

\* a query that forgets the bridged=0 condition's sense
QueryToppedUpCustomersWrongFlag ==
    { ip \in IPs : /\ static_ips[ip] # NoImsi
                   /\ customers[static_ips[ip]].enabled
                   /\ customers[static_ips[ip]].data_balance > 0
                   /\ customers[static_ips[ip]].bridged }

\* SELECT ip ... WHERE enabled=1 AND data_balance>0 AND bridged=0
QueryToppedUpCustomers ==
    { ip \in IPs : /\ static_ips[ip] # NoImsi
                   /\ customers[static_ips[ip]].enabled
                   /\ customers[static_ips[ip]].data_balance > 0
                   /\ ~customers[static_ips[ip]].bridged }

\* the accounting before the clamp was introduced
LogUsageRowNoClamp(row, up, down) ==
    [row EXCEPT !.raw_down = row.raw_down + down,
                !.raw_up = row.raw_up + up,
                !.data_balance = row.data_balance - up - down]

\* The business logic of LogUsage on the row it read: the row it writes back.
LogUsageRow(row, up, down) ==
    [row EXCEPT !.raw_down = row.raw_down + down,
                !.raw_up = row.raw_up + up,
                !.data_balance = IF row.data_balance - up - down < 0
                                 THEN 0
                                 ELSE row.data_balance - up - down]

\* a retry loop that tries once more
LogUsageGivesUpLate(i) == i >= CommitAttempts + 1

\* for i := 0; i < 3; i++ : the loop of LogUsage ends after the third attempt
LogUsageGivesUp(i) == i >= CommitAttempts

\* for i := 0; i < 3; i++ : the loop of UpdateBridgedState (no return on success)
UpdateBridgedStateDone(i) == i >= CommitAttempts

\* the value UpdateBridgedState returns after its loop, whatever the number of
\* commits that failed: return nil
UpdateBridgedStateReturn(fails) == "nil"

\* an UPDATE that stores nothing
BridgedCommittedNoWrite(ip, bridged) == customers

\* UPDATE customers SET bridged=? WHERE imsi=? ; COMMIT
BridgedCommitted(ip, bridged) ==
    IF LookupImsi(ip) = NoImsi
    THEN customers
    ELSE [customers EXCEPT ![LookupImsi(ip)].bridged = bridged]

\* ---------------------------------------------------- the kernel effector
\* iptables -C FORWARD -s ip -j REJECT runs and exits 0: err == nil. The call
\* can also return an error with the rule in the chain (SyncProbeFails,
\* EnforceProbeFails)
FilterPresent(ip) == rules[ip] > 0

\* iptables -I FORWARD -s ip -j REJECT
FilterInserted(ip) == [rules EXCEPT ![ip] = @ + 1]

\* iptables -D FORWARD -s ip -j REJECT : deletes one matching rule, fails if none
DisableForwardingFilter(ip) ==
    /\ rules' = [rules EXCEPT ![ip] = IF @ > 0 THEN @ - 1 ELSE @]
    /\ lastOp' = [op |-> "disable_block", ip |-> ip,
                  outcome |-> IF rules[ip] > 0 THEN "deleted" ELSE "delete_absent"]

\* ------------------------------------------------- enforcement controller
\* a threshold test that waits for a negative balance
verifyBalanceStrict(cur, prior) ==
    IF cur > TenMB THEN "none"
    ELSE IF cur < 0 /\ prior > 0 THEN "block"
    ELSE IF cur <= OneMB /\ prior > OneMB THEN "lt1MB"
    ELSE IF cur <= FiveMB /\ prior > FiveMB THEN "lt5MB"
    ELSE IF cur <= TenMB /\ prior > TenMB THEN "lt10MB"
    ELSE "none"

\* a switch whose cases are tested from the highest threshold down
verifyBalanceHighestFirst(cur, prior) ==
    IF cur > TenMB THEN "none"
    ELSE IF cur <= TenMB /\ prior > TenMB THEN "lt10MB"
    ELSE IF cur <= FiveMB /\ prior > FiveMB THEN "lt5MB"
    ELSE IF cur <= OneMB /\ prior > OneMB THEN "lt1MB"
    ELSE IF cur <= 0 /\ prior > 0 THEN "block"
    ELSE "none"

\* The switch of verifyBalance: the rule that fires for a commit status.
verifyBalance(cur, prior) ==
    IF cur > TenMB THEN "none"
    ELSE IF cur <= 0 /\ prior > 0 THEN "block"
    ELSE IF cur <= OneMB /\ prior > OneMB THEN "lt1MB"
    ELSE IF cur <= FiveMB /\ prior > FiveMB THEN "lt5MB"
    ELSE IF cur <= TenMB /\ prior > TenMB THEN "lt10MB"
    ELSE "none"

\* UserContext.ShouldLogNow of package main, the one aggregateUser calls
ShouldLogNow(DataBalance, outstandingData) == outstandingData >= DataBalance

\* UserContext.ShouldLogNow of tdf/internal/types
ShouldLogNowTypes(DataBalance, outstandingData) ==
    outstandingData >= DataBalance /\ DataBalance > 0

\* cached balances and outstanding byte counts around each other
ShouldLogNowInputs ==
    { [fn |-> "ShouldLogNow", DataBalance |-> b, outstandingData |-> o, done |-> FALSE,
       out |-> FALSE, outTypes |-> FALSE] : b \in 0..MaxBalance, o \in 0..(MaxBalance + 1) }


\* ------------------------------------------------------------ initial state
AggFresh ==
    [pc |-> "absent", localUp |-> 0, localDown |-> 0, extUp |-> 0, extDown |-> 0,
     DataBalance |-> 0, ctx |-> "none", i |-> 0, up |-> 0, down |-> 0,
     row |-> NoRow, status |-> NoStatus, enf |-> <<>>, fails |-> 0, attempts |-> 0,
     enableErr |-> FALSE, err |-> "none"]

SyncFresh ==
    [pc |-> "start", storedState |-> {}, todo |-> {}, user |-> "none",
     calls |-> [ip \in IPs |-> <<>>]]

PollFresh == [pc |-> "off", usersToEnable |-> {}, userIp |-> "none", i |-> 0, fails |-> 0]

\* terminateSig is open and OnStop has not been called
StopFresh == [sig |-> FALSE, pc |-> "idle"]

\* ------------------------------------------------------------ five-tuples
\* network addresses and transport ports, ordered as their raw bytes are
Endpoints == 1..MaxEndpoint

\* classify.FiveTuple: Network and Transport flows, TransportProtocol
FiveTuples ==
    [nsrc : Endpoints, ndst : Endpoints, tsrc : Endpoints, tdst : Endpoints, proto : {"udp"}]

\* FiveTuple{t.Network.Reverse(), t.Transport.Reverse(), t.TransportProtocol}
Reverse(t) == [nsrc |-> t.ndst, ndst |-> t.nsrc, tsrc |-> t.tdst, tdst |-> t.tsrc,
               proto |-> t.proto]

\* no ordering: the tuple as captured
MakeCanonicalAsCaptured(t) == t

\* an ordering by the network endpoints alone
MakeCanonicalNoLoopback(t) ==
    IF t.nsrc < t.ndst THEN t ELSE Reverse(t)

\* FiveTuple.MakeCanonical: loopback flows are ordered by their transport
\* endpoints, the others by their network endpoints
MakeCanonical(t) ==
    IF t.nsrc = t.ndst
    THEN IF t.tsrc < t.tdst THEN t ELSE Reverse(t)
    ELSE IF t.nsrc < t.ndst THEN t ELSE Reverse(t)

MakeCanonicalInputs ==
    { [fn |-> "MakeCanonical", t |-> t, done |-> FALSE, out |-> t, outReverse |-> t] :
        t \in FiveTuples }

\* no function call is under study
NoPure == [fn |-> "none"]

\* ------------------------------------------------- packet pipeline at rest
FlowChans == 1..MaxPackets
\* one event of a flow task reaches at most two subscribers
UserChans == 1..(2 * MaxPackets)
NoChan == 0

NoFlow == [nsrc |-> 0, ndst |-> 0, tsrc |-> 0, tdst |-> 0, proto |-> "none"]
NoEvent == [flow |-> NoFlow, amount |-> 0]

IngressFresh == [pc |-> "read", event |-> NoEvent, flowChannel |-> NoChan, left |-> MaxPackets]

FlowTaskFresh ==
    [pc |-> "unmade", flow |-> NoFlow, bytesAB |-> 0, bytesBA |-> 0,
     sends |-> <<>>, userChannel |-> NoChan, existed |-> FALSE]

UserTaskFresh ==
    [pc |-> "unmade", user |-> 0, localUp |-> 0, localDown |-> 0, extUp |-> 0, extDown |-> 0,
     DataBalance |-> 0]

NoFault == [panic |-> FALSE, logFlowErr |-> FALSE]

\* no event processed yet: per flow the number of its last event, per
\* (flow, subscriber) the stamp of the last usage event; inOrder turns false
\* when a task processes an event emitted before one it has processed
NoneProcessed ==
    [flow |-> [t \in FiveTuples |-> 0],
     user |-> [p \in FiveTuples \X Endpoints |-> 0],
     inOrder |-> TRUE]

\* the pipeline before the first packet
FlowIdle ==
    /\ flowHandlers = [t \in FiveTuples |-> NoChan]
    /\ flowTask = [c \in FlowChans |-> FlowTaskFresh]
    /\ userAggregators = [e \in Endpoints |-> NoChan]
    /\ userTask = [c \in UserChans |-> UserTaskFresh]
    /\ writers = <<>>
    /\ flowlogs = [t \in FiveTuples |-> [ab |-> 0, ba |-> 0]]
    /\ observed = [t \in FiveTuples |-> 0]
    /\ processed = NoneProcessed
    /\ processingGroup = 0
    /\ fault = NoFault

\* balances at and around the thresholds of verifyBalance
ThresholdSamples ==
    {0, 1, OneMB - 1, OneMB, OneMB + 1, FiveMB - 1, FiveMB, FiveMB + 1,
     TenMB - 1, TenMB, TenMB + 1}

\* the statuses LogUsage may hand to verifyBalance
verifyBalanceInputs ==
    { [fn |-> "verifyBalance", cur |-> c, prior |-> p, done |-> FALSE, fired |-> <<>>] :
        c \in ThresholdSamples, p \in ThresholdSamples }

\* ------------------------------------------------------- DNS log at rest
DnsCallers == 1..MaxDnsCalls
\* the (host, ip_addresses, ttls) triples an event may carry
Triples == 1..MaxTriples
NoIdx == 0

DnsCallFresh == [pc |-> "off", key |-> 0, i |-> 0, inserted |-> NoIdx, answerIndex |-> NoIdx,
                 responded |-> FALSE, err |-> "none"]

\* both tables empty, no LogDnsResponse call
DnsIdle == [answers |-> {}, dnsResponses |-> {}, nextIdx |-> 1,
            calls |-> [c \in DnsCallers |-> DnsCallFresh]]

\* the variables outside the enforcement loop at rest
AuxIdle ==
    /\ stop = StopFresh
    /\ pure = NoPure
    /\ dns = DnsIdle
    /\ ingress = [IngressFresh EXCEPT !.pc = "off"]
    /\ FlowIdle

\* the enforcement loop at rest: started, no traffic, no top-up to come
CoreIdle ==
    /\ static_ips = OwnAddress
    /\ active = {}
    /\ customers = [imsi \in IMSIs |-> [NoRow EXCEPT !.data_balance = MaxBalance,
                                                     !.bridged = TRUE, !.enabled = TRUE]]
    /\ rules = [ip \in IPs |-> 0]
    /\ sync = [SyncFresh EXCEPT !.pc = "done"]
    /\ poll = [PollFresh EXCEPT !.pc = "wait"]
    /\ agg = [ip \in IPs |-> AggFresh]
    /\ evLeft = 0
    /\ topLeft = 0
    /\ lastOp = NoOp
    /\ startOK = TRUE

\* The rows the store may hold at startup: the first account with any balance,
\* the second one credited; the counters start at zero.
InitCustomers ==
    { c \in [IMSIs -> [raw_up : {0}, raw_down : {0}, data_balance : 0..MaxBalance,
                       bridged : BOOLEAN, enabled : BOOLEAN]] :
        /\ c["imsi1"].enabled
        /\ c["imsi2"].data_balance = MaxBalance }

InitTasks ==
    /\ agg = [ip \in IPs |-> AggFresh]
    /\ evLeft = MaxEvents
    /\ topLeft = MaxTopUps
    /\ lastOp = NoOp
    /\ startOK = FALSE
    /\ AuxIdle

\* The process starts: the FORWARD chain holds what a previous run left, which
\* may be several identical rules for one address (iptables -I does not look
\* for duplicates, and the EnableForwardingFilter of src/unnamed/part_005
\* inserted without the -C probe).
InitPreviousRun ==
    /\ static_ips \in {OwnAddress, Unmapped}
    /\ active \in ActiveSets(static_ips)
    /\ customers \in InitCustomers
    /\ rules \in [IPs -> 0..MaxRules]
    /\ sync = SyncFresh
    /\ poll = PollFresh
    /\ InitTasks

\* The process starts on a chain without duplicates: at most one rule per
\* address, blocked or not whatever the bridged flags say. The chains with
\* duplicates are those of InitPreviousRun, from which the startup
\* reconciliation is checked (SpecReconcile).
Init ==
    /\ InitPreviousRun
    /\ \A ip \in IPs : rules[ip] <= 1

\* Two addresses of one account, both with traffic, after a startup that found
\* the FORWARD chain as the bridged flags say.
InitShared ==
    /\ static_ips = SharedAccount
    /\ active = IPs
    /\ customers \in { c \in InitCustomers : c["imsi2"].enabled /\ c["imsi2"].bridged }
    /\ rules = [ip \in IPs |-> IF customers[static_ips[ip]].bridged THEN 0 ELSE 1]
    /\ sync = [SyncFresh EXCEPT !.pc = "done"]
    /\ poll = [PollFresh EXCEPT !.pc = "wait"]
    /\ agg = [ip \in IPs |-> AggFresh]
    /\ evLeft = MaxEvents
    /\ topLeft = MaxTopUps
    /\ lastOp = NoOp
    /\ startOK = \A ip \in IPs : customers[static_ips[ip]].data_balance = 0
                                    => ~customers[static_ips[ip]].bridged
    /\ AuxIdle

Running == sync.pc = "done"

\* ------------------------------------------------- startup reconciliation
\* storedState := storage.QueryGlobalBridgedState(db)
SyncQuery ==
    /\ sync.pc = "start"
    /\ sync' = [sync EXCEPT !.pc = "loop",
                            !.storedState = QueryGlobalBridgedState,
                            !.todo = QueryGlobalBridgedState]
    /\ lastOp' = NoOp
    /\ UNCHANGED <<auxVars, static_ips, active, customers, rules, agg, poll, evLeft, topLeft, startOK>>

\* one iteration of the loop over storedState, up to the -C probe of enable
SyncUser ==
    /\ sync.pc = "loop"
    /\ \E u \in sync.todo :
        IF u.Bridged
        THEN /\ DisableForwardingFilter(u.Addr)
             /\ sync' = [sync EXCEPT !.todo = @ \ {u},
                                     !.calls[u.Addr] = Append(@, "disable_block")]
        ELSE IF FilterPresent(u.Addr)
        THEN /\ sync' = [sync EXCEPT !.todo = @ \ {u},
                                     !.calls[u.Addr] = Append(@, "enable_block")]
             /\ lastOp' = [op |-> "enable_block", ip |-> u.Addr, outcome |-> "already_present"]
             /\ UNCHANGED rules
        ELSE /\ sync' = [sync EXCEPT !.pc = "insert", !.user = u.Addr, !.todo = @ \ {u},
                                     !.calls[u.Addr] = Append(@, "enable_block")]
             /\ lastOp' = NoOp
             /\ UNCHANGED rules
    /\ UNCHANGED <<auxVars, static_ips, active, customers, agg, poll, evLeft, topLeft, startOK>>

\* the iptables -C of EnableForwardingFilter returns an error although the rule
\* is in the chain (the xtables lock is held, the command cannot be run):
\* err != nil, so the function goes on to its iptables -I
SyncProbeFails ==
    /\ sync.pc = "loop"
    /\ \E u \in sync.todo :
        /\ ~u.Bridged
        /\ rules[u.Addr] > 0
        /\ rules[u.Addr] < MaxRules
        /\ sync' = [sync EXCEPT !.pc = "insert", !.user = u.Addr, !.todo = @ \ {u},
                                !.calls[u.Addr] = Append(@, "enable_block")]
    /\ lastOp' = NoOp
    /\ UNCHANGED <<auxVars, static_ips, active, customers, rules, agg, poll, evLeft, topLeft, startOK>>

\* the iptables -I of EnableForwardingFilter, called by synchronizeFiltersToDb
SyncInsert ==
    /\ sync.pc = "insert"
    /\ rules' = FilterInserted(sync.user)
    /\ lastOp' = [op |-> "enable_block", ip |-> sync.user, outcome |-> "inserted"]
    /\ sync' = [sync EXCEPT !.pc = "loop", !.user = "none"]
    /\ UNCHANGED <<auxVars, static_ips, active, customers, agg, poll, evLeft, topLeft, startOK>>

\* the iptables -I of EnableForwardingFilter fails during reconciliation:
\* the error is logged and the loop goes on
SyncInsertFails ==
    /\ sync.pc = "insert"
    /\ lastOp' = [op |-> "enable_block", ip |-> sync.user, outcome |-> "failed"]
    /\ sync' = [sync EXCEPT !.pc = "loop", !.user = "none"]
    /\ UNCHANGED <<auxVars, static_ips, active, customers, rules, agg, poll, evLeft, topLeft, startOK>>

\* the iptables -D of DisableForwardingFilter fails during reconciliation with
\* the rule in the chain: the error is logged and the loop goes on
SyncDisableFails ==
    /\ sync.pc = "loop"
    /\ \E u \in sync.todo :
        /\ u.Bridged
        /\ rules[u.Addr] > 0
        /\ sync' = [sync EXCEPT !.todo = @ \ {u},
                                !.calls[u.Addr] = Append(@, "disable_block")]
        /\ lastOp' = [op |-> "disable_block", ip |-> u.Addr, outcome |-> "failed"]
    /\ UNCHANGED <<auxVars, static_ips, active, customers, rules, agg, poll, evLeft, topLeft, startOK>>

\* synchronizeFiltersToDb returns; OnStart spawns the poller; main starts the ingress loop
OnStart ==
    /\ sync.pc = "loop"
    /\ sync.todo = {}
    /\ sync' = [sync EXCEPT !.pc = "done"]
    /\ poll' = [poll EXCEPT !.pc = "wait"]
    /\ startOK' = \A ip \in IPs :
                     (static_ips[ip] # NoImsi /\ customers[static_ips[ip]].data_balance = 0)
                        => (rules[ip] > 0 /\ ~customers[static_ips[ip]].bridged)
    /\ lastOp' = NoOp
    /\ UNCHANGED <<auxVars, static_ips, active, customers, rules, agg, evLeft, topLeft>>

\* ------------------------------------------------------ subscriber aggregator
ZeroCounters(a) ==
    [a EXCEPT !.localUp = 0, !.localDown = 0, !.extUp = 0, !.extDown = 0]

\* storage.LogUsage is entered with the given byte counts
CallLogUsage(a, ctx, up, down) ==
    [a EXCEPT !.pc = "lu_read", !.ctx = ctx, !.up = up, !.down = down, !.i = 0,
              !.fails = 0, !.attempts = 0, !.row = NoRow, !.status = NoStatus,
              !.enf = <<>>]

\* a flush that bills the local bytes too
LogUserPeriodicAllBytes(a) ==
    CallLogUsage(a, "flush", a.extUp + a.localUp, a.extDown + a.localDown)

\* LogUserPeriodic(user, localUp, localDown, extUp, extDown) calls
\* LogUsage with BytesUp: extUpBytes, BytesDown: extDownBytes
LogUserPeriodic(a) == CallLogUsage(a, "flush", a.extUp, a.extDown)

\* LogUsage has returned its status: UserContext.Init stores the balance and the
\* task enters its loop; LogUserPeriodic goes on to verifyBalance(status).
\* err is the error LogUserPeriodic holds (and only logs) beside the status.
LogUsageReturned(a, status, err) ==
    IF a.ctx = "init"
    THEN [a EXCEPT !.pc = "select", !.DataBalance = status.cur, !.row = NoRow,
                   !.ctx = "none", !.i = 0, !.fails = 0, !.attempts = 0]
    ELSE [a EXCEPT !.pc = "verify", !.status = status, !.row = NoRow,
                   !.i = 0, !.fails = 0, !.attempts = 0, !.err = err]

\* what a return of LogUsage shows: its arguments, its result and the row before
\* and after its commit
LogUsageResult(ip, a, err, status, pre, post) ==
    [op |-> "LogUsage", ip |-> ip, ctx |-> a.ctx, up |-> a.up, down |-> a.down,
     err |-> err, attempts |-> a.attempts, fails |-> a.fails,
     cur |-> status.cur, prior |-> status.prior, pre |-> pre, post |-> post]

\* a caller that keeps its counters after LogUserPeriodic
FlushDoneKeep(a) ==
    [a EXCEPT !.pc = "select", !.ctx = "none", !.i = 0, !.up = 0, !.down = 0,
              !.status = NoStatus, !.enf = <<>>, !.enableErr = FALSE, !.err = "none"]

\* LogUserPeriodic has returned: the caller zeroes its four counters
FlushDone(a) ==
    [ZeroCounters(a) EXCEPT !.pc = "select", !.ctx = "none", !.i = 0, !.up = 0, !.down = 0,
                            !.status = NoStatus, !.enf = <<>>, !.enableErr = FALSE,
                            !.err = "none"]

\* what a return of LogUserPeriodic shows; immediate: the flush was started by
\* ShouldLogNow, not by the log tick
FlushResult(ip, a, enf) ==
    [op |-> "LogUserPeriodic", ip |-> ip, cur |-> a.status.cur, prior |-> a.status.prior,
     enf |-> enf, immediate |-> ShouldLogNow(a.DataBalance, a.up + a.down), err |-> a.err]

\* sendToUserAggregator finds no task: LoadOrStore, go aggregateUser, which
\* begins with customContext.Init(user), a LogUsage of zero bytes
Spawn(ip) ==
    /\ Running
    /\ agg[ip].pc = "absent"
    /\ ip \in active
    /\ evLeft > 0
    /\ agg' = [agg EXCEPT ![ip] = CallLogUsage(AggFresh, "init", 0, 0)]
    /\ lastOp' = NoOp
    /\ UNCHANGED <<auxVars, static_ips, active, customers, rules, sync, poll, evLeft, topLeft, startOK>>

AddEvent(a, kind, delta) ==
    CASE kind = "LOCAL_UP" -> [a EXCEPT !.localUp = @ + delta]
      [] kind = "LOCAL_DOWN" -> [a EXCEPT !.localDown = @ + delta]
      [] kind = "EXT_UP" -> [a EXCEPT !.extUp = @ + delta]
      [] kind = "EXT_DOWN" -> [a EXCEPT !.extDown = @ + delta]

\* case newEvent := <-ch
Receive(ip) ==
    /\ agg[ip].pc = "select"
    /\ evLeft > 0
    /\ evLeft' = evLeft - 1
    /\ \E kind \in FlowTypes, delta \in Amounts :
        LET a == AddEvent(agg[ip], kind, delta)
        IN  agg' = [agg EXCEPT ![ip] =
                      IF ShouldLogNow(a.DataBalance, a.extUp + a.extDown)
                      THEN LogUserPeriodic(a)
                      ELSE a]
    /\ lastOp' = NoOp
    /\ UNCHANGED <<auxVars, static_ips, active, customers, rules, sync, poll, topLeft, startOK>>

\* case <-logTick.C
Tick(ip) ==
    /\ agg[ip].pc = "select"
    /\ LET a == agg[ip]
       IN  agg' = [agg EXCEPT ![ip] =
                     IF a.localUp = 0 /\ a.localDown = 0 /\ a.extUp = 0 /\ a.extDown = 0
                     THEN AggFresh
                     ELSE LogUserPeriodic(a)]
    /\ lastOp' = NoOp
    /\ UNCHANGED <<auxVars, static_ips, active, customers, rules, sync, poll, evLeft, topLeft, startOK>>

\* db.Begin, the static_ips lookup and the SELECT of the customer row
LogUsageRead(ip) ==
    /\ agg[ip].pc = "lu_read"
    /\ LET a == [agg[ip] EXCEPT !.attempts = @ + 1]
       IN  IF LookupImsi(ip) = NoImsi
           THEN /\ agg' = [agg EXCEPT ![ip] = LogUsageReturned(a, NoStatus, "NotFound")]
                /\ lastOp' = LogUsageResult(ip, a, "NotFound", NoStatus, NoRow, NoRow)
           ELSE /\ agg' = [agg EXCEPT ![ip] =
                             [a EXCEPT !.pc = "lu_commit", !.row = customers[LookupImsi(ip)]]]
                /\ lastOp' = NoOp
    /\ UNCHANGED <<auxVars, static_ips, active, customers, rules, sync, poll, evLeft, topLeft, startOK>>

\* the UPDATE of the customer row and a commit that succeeds
LogUsageCommit(ip) ==
    /\ agg[ip].pc = "lu_commit"
    /\ LET a == agg[ip]
           imsi == LookupImsi(ip)
           new == LogUsageRow(a.row, a.up, a.down)
           status == [cur |-> new.data_balance, prior |-> a.row.data_balance]
       IN  /\ customers' = [customers EXCEPT ![imsi] = new]
           /\ agg' = [agg EXCEPT ![ip] = LogUsageReturned(a, status, "ok")]
           /\ lastOp' = LogUsageResult(ip, a, "ok", status, customers[imsi], new)
    /\ UNCHANGED <<auxVars, static_ips, active, rules, sync, poll, evLeft, topLeft, startOK>>

\* a transaction whose UPDATE stays in the table although its Commit failed
UpdateKept(rows, imsi, new) == [rows EXCEPT ![imsi] = new]

\* the table after a transaction that did not commit: its UPDATE is undone
UpdateUndone(rows, imsi, new) == rows

\* trx.Commit fails: warn, next attempt, or give up after the last one
LogUsageCommitFails(ip) ==
    /\ agg[ip].pc = "lu_commit"
    /\ LET a == [agg[ip] EXCEPT !.fails = @ + 1, !.i = @ + 1]
       IN  IF LogUsageGivesUp(a.i)
           THEN /\ agg' = [agg EXCEPT ![ip] = LogUsageReturned(a, NoStatus, "TransactionLost")]
                /\ lastOp' = LogUsageResult(ip, a, "TransactionLost", NoStatus, NoRow, NoRow)
           ELSE /\ agg' = [agg EXCEPT ![ip] = [a EXCEPT !.pc = "lu_read", !.row = NoRow]]
                /\ lastOp' = NoOp
    /\ customers' = UpdateUndone(customers, LookupImsi(ip),
                                 LogUsageRow(agg[ip].row, agg[ip].up, agg[ip].down))
    /\ UNCHANGED <<auxVars, static_ips, active, rules, sync, poll, evLeft, topLeft, startOK>>

\* a statement of the transaction fails (the SELECT of the row, or the UPDATE):
\* rollback and return the error, no retry
LogUsageStatementFails(ip) ==
    /\ agg[ip].pc = "lu_commit"
    /\ agg' = [agg EXCEPT ![ip] = LogUsageReturned(agg[ip], NoStatus, "BackendError")]
    /\ lastOp' = LogUsageResult(ip, agg[ip], "BackendError", NoStatus, NoRow, NoRow)
    /\ UNCHANGED <<auxVars, static_ips, active, customers, rules, sync, poll, evLeft, topLeft, startOK>>

\* verifyBalance(status): the switch; only the rule "block" has a side effect
VerifyBalance(ip) ==
    /\ agg[ip].pc = "verify"
    /\ IF verifyBalance(agg[ip].status.cur, agg[ip].status.prior) = "block"
       THEN /\ agg' = [agg EXCEPT ![ip].pc = "vb_check"]
            /\ lastOp' = NoOp
       ELSE /\ agg' = [agg EXCEPT ![ip] = FlushDone(agg[ip])]
            /\ lastOp' = FlushResult(ip, agg[ip], agg[ip].enf)
    /\ UNCHANGED <<auxVars, static_ips, active, customers, rules, sync, poll, evLeft, topLeft, startOK>>

\* EnableForwardingFilter up to its -C probe; when the rule is present it
\* returns and UpdateBridgedState is entered
EnforceProbe(ip) ==
    /\ agg[ip].pc = "vb_check"
    /\ IF FilterPresent(ip)
       THEN /\ agg' = [agg EXCEPT ![ip].pc = "ubs", ![ip].i = 0,
                                  ![ip].enf = <<"enable_block", "UpdateBridgedState">>]
            /\ lastOp' = [op |-> "enable_block", ip |-> ip, outcome |-> "already_present"]
       ELSE /\ agg' = [agg EXCEPT ![ip].pc = "vb_insert", ![ip].enf = <<"enable_block">>]
            /\ lastOp' = NoOp
    /\ UNCHANGED <<auxVars, static_ips, active, customers, rules, sync, poll, evLeft, topLeft, startOK>>

\* the iptables -C of EnableForwardingFilter returns an error although the rule
\* is in the chain: err != nil, so the function goes on to its iptables -I
EnforceProbeFails(ip) ==
    /\ agg[ip].pc = "vb_check"
    /\ rules[ip] > 0
    /\ rules[ip] < MaxRules
    /\ agg' = [agg EXCEPT ![ip].pc = "vb_insert", ![ip].enf = <<"enable_block">>]
    /\ lastOp' = NoOp
    /\ UNCHANGED <<auxVars, static_ips, active, customers, rules, sync, poll, evLeft, topLeft, startOK>>

\* the iptables -I of EnableForwardingFilter; UpdateBridgedState is entered
EnforceInsert(ip) ==
    /\ agg[ip].pc = "vb_insert"
    /\ rules' = FilterInserted(ip)
    /\ lastOp' = [op |-> "enable_block", ip |-> ip, outcome |-> "inserted"]
    /\ agg' = [agg EXCEPT ![ip].pc = "ubs", ![ip].i = 0,
                          ![ip].enf = Append(@, "UpdateBridgedState")]
    /\ UNCHANGED <<auxVars, static_ips, active, customers, sync, poll, evLeft, topLeft, startOK>>

\* the iptables -I of EnableForwardingFilter fails: the error is logged, nothing
\* is returned to verifyBalance, and UpdateBridgedState is entered all the same
EnforceInsertFails(ip) ==
    /\ agg[ip].pc = "vb_insert"
    /\ lastOp' = [op |-> "enable_block", ip |-> ip, outcome |-> "failed"]
    /\ agg' = [agg EXCEPT ![ip].pc = "ubs", ![ip].i = 0, ![ip].enableErr = TRUE,
                          ![ip].enf = Append(@, "UpdateBridgedState")]
    /\ UNCHANGED <<auxVars, static_ips, active, customers, rules, sync, poll, evLeft, topLeft, startOK>>

\* one more iteration of UpdateBridgedState(ip, false) is over; after the last
\* one verifyBalance and LogUserPeriodic return
EnforceAttemptDone(ip) ==
    IF UpdateBridgedStateDone(agg[ip].i + 1)
    THEN /\ agg' = [agg EXCEPT ![ip] = FlushDone(agg[ip])]
         /\ lastOp' = FlushResult(ip, agg[ip], agg[ip].enf)
    ELSE /\ agg' = [agg EXCEPT ![ip].i = @ + 1]
         /\ lastOp' = NoOp

\* one iteration of UpdateBridgedState(ip, false) whose commit succeeds
EnforceBridged(ip) ==
    /\ agg[ip].pc = "ubs"
    /\ customers' = BridgedCommitted(ip, FALSE)
    /\ EnforceAttemptDone(ip)
    /\ UNCHANGED <<auxVars, static_ips, active, rules, sync, poll, evLeft, topLeft, startOK>>

\* one iteration of UpdateBridgedState(ip, false) whose commit fails (warn only)
EnforceBridgedCommitFails(ip) ==
    /\ agg[ip].pc = "ubs"
    /\ EnforceAttemptDone(ip)
    /\ UNCHANGED <<auxVars, static_ips, active, customers, rules, sync, poll, evLeft, topLeft, startOK>>

\* ------------------------------------------------------------ topup poller
\* case <-ticker.C: usersToEnable := storage.QueryToppedUpCustomers(db)
PollTick ==
    /\ poll.pc = "wait"
    /\ poll' = [poll EXCEPT !.usersToEnable = QueryToppedUpCustomers,
                            !.pc = IF QueryToppedUpCustomers = {} THEN "wait" ELSE "loop"]
    /\ lastOp' = NoOp
    /\ UNCHANGED <<auxVars, static_ips, active, customers, rules, sync, agg, evLeft, topLeft, startOK>>

\* for _, userIp := range usersToEnable: iptables.DisableForwardingFilter(userIp)
PollDisable ==
    /\ poll.pc = "loop"
    /\ \E ip \in poll.usersToEnable :
        /\ DisableForwardingFilter(ip)
        /\ poll' = [poll EXCEPT !.pc = "ubs", !.userIp = ip, !.i = 0,
                                !.usersToEnable = @ \ {ip}]
    /\ UNCHANGED <<auxVars, static_ips, active, customers, sync, agg, evLeft, topLeft, startOK>>

\* the poller after one more iteration of UpdateBridgedState's loop
AfterPollBridgedAttempt(p) ==
    IF UpdateBridgedStateDone(p.i + 1)
    THEN [p EXCEPT !.pc = IF p.usersToEnable = {} THEN "wait" ELSE "loop",
                   !.userIp = "none", !.i = 0, !.fails = 0]
    ELSE [p EXCEPT !.i = @ + 1]

\* what an iteration of the poller's UpdateBridgedState(userIp, true) shows: the
\* commits that have failed so far and, if the loop is over, the value returned
UpdateBridgedStateResult(p) ==
    [op |-> "UpdateBridgedState", ip |-> p.userIp, bridged |-> TRUE,
     caller |-> "pollForReenabledUsers", fails |-> p.fails,
     returned |-> UpdateBridgedStateDone(p.i + 1),
     err |-> IF UpdateBridgedStateDone(p.i + 1) THEN UpdateBridgedStateReturn(p.fails)
             ELSE "none"]

\* one iteration of UpdateBridgedState(userIp, true) whose commit succeeds
PollBridged ==
    /\ poll.pc = "ubs"
    /\ customers' = BridgedCommitted(poll.userIp, TRUE)
    /\ poll' = AfterPollBridgedAttempt(poll)
    /\ lastOp' = UpdateBridgedStateResult(poll)
    /\ UNCHANGED <<auxVars, static_ips, active, rules, sync, agg, evLeft, topLeft, startOK>>

\* one iteration of UpdateBridgedState(userIp, true) whose commit fails
PollBridgedCommitFails ==
    /\ poll.pc = "ubs"
    /\ LET p == [poll EXCEPT !.fails = @ + 1]
       IN  /\ poll' = AfterPollBridgedAttempt(p)
           /\ lastOp' = IF UpdateBridgedStateDone(p.i + 1)
                        THEN UpdateBridgedStateResult(p) ELSE NoOp
    /\ UNCHANGED <<auxVars, static_ips, active, customers, rules, sync, agg, evLeft, topLeft, startOK>>

\* --------------------------------------------------------- external writer
\* the administrative tooling credits an account
TopUp ==
    /\ topLeft > 0
    /\ topLeft' = topLeft - 1
    /\ \E imsi \in IMSIs \cap { static_ips[ip] : ip \in IPs }, amount \in Amounts :
        customers' = [customers EXCEPT ![imsi].data_balance = @ + amount]
    /\ lastOp' = NoOp
    /\ UNCHANGED <<auxVars, static_ips, active, rules, sync, agg, poll, evLeft, startOK>>

\* ---------------------------------------------------------- specifications
Startup == SyncQuery \/ SyncUser \/ SyncInsert \/ OnStart

Aggregator(ip) ==
    \/ Spawn(ip) \/ Receive(ip) \/ Tick(ip)
    \/ LogUsageRead(ip) \/ LogUsageCommit(ip) \/ VerifyBalance(ip)
    \/ EnforceProbe(ip) \/ EnforceInsert(ip) \/ EnforceBridged(ip)

Poller == PollTick \/ PollDisable \/ PollBridged

StoreFault(ip) ==
    \/ LogUsageCommitFails(ip) \/ LogUsageStatementFails(ip)
    \/ EnforceBridgedCommitFails(ip)

\* the store never fails
NextReliable ==
    \/ Startup
    \/ \E ip \in IPs : Aggregator(ip)
    \/ Poller
    \/ TopUp

Next ==
    \/ Startup
    \/ \E ip \in IPs : Aggregator(ip)
    \/ Poller
    \/ TopUp
    \/ \E ip \in IPs : StoreFault(ip)
    \/ PollBridgedCommitFails

Spec == Init /\ [][Next]_vars

SpecReliable == Init /\ [][NextReliable]_vars

\* the subscriber tasks and the external writer, while the poller waits for its tick
NextShared ==
    \/ \E ip \in IPs : Aggregator(ip)
    \/ TopUp

SpecShared == InitShared /\ [][NextShared]_vars

\* the store never fails and every task that can run eventually does
SpecLive == Init /\ [][NextReliable]_vars /\ WF_vars(Startup) /\ WF_vars(Poller)

\* the store never fails; a call of iptables may fail: the -C probe at startup
\* and during enforcement, the insert during enforcement
NextEffector ==
    \/ Startup
    \/ SyncProbeFails
    \/ \E ip \in IPs : Aggregator(ip)
    \/ Poller
    \/ TopUp
    \/ \E ip \in IPs : EnforceProbeFails(ip) \/ EnforceInsertFails(ip)

SpecEffector == Init /\ [][NextEffector]_vars

\* the start of the process on any chain a previous run left, with an effector
\* whose probe, insert or delete may fail
NextReconcile ==
    \/ Startup
    \/ SyncProbeFails
    \/ SyncInsertFails
    \/ SyncDisableFails

SpecReconcile == InitPreviousRun /\ [][NextReconcile]_vars

\* One subscriber with a balance and several usage events to come, after a
\* startup that found it unblocked; no other writer of its account.
InitLatency ==
    /\ static_ips = OwnAddress
    /\ active = {"ip1"}
    /\ customers \in { c \in InitCustomers : /\ c["imsi1"].bridged
                                              /\ c["imsi2"].enabled /\ c["imsi2"].bridged }
    /\ rules = [ip \in IPs |-> 0]
    /\ sync = [SyncFresh EXCEPT !.pc = "done"]
    /\ poll = [PollFresh EXCEPT !.pc = "wait"]
    /\ agg = [ip \in IPs |-> AggFresh]
    /\ evLeft = MaxEvents + 1
    /\ topLeft = 0
    /\ lastOp = NoOp
    /\ startOK = FALSE
    /\ AuxIdle

NextLatency == \E ip \in IPs : Aggregator(ip)

SpecLatency == InitLatency /\ [][NextLatency]_vars

\* ------------------------------------------------------------- shutdown
\* a poller that does not look at the terminate signal
PollIgnoresSignal(p) == p

\* case <-terminateSignal: return, and the deferred wg.Done() and ticker.Stop()
PollReturned(p) == [PollFresh EXCEPT !.pc = "stopped"]

\* OnStop: close(ctx.terminateSig), then it blocks in ctx.pollers.Wait()
OnStopSignal ==
    /\ Running
    /\ stop.pc = "idle"
    /\ stop' = [sig |-> TRUE, pc |-> "Wait"]
    /\ lastOp' = NoOp
    /\ UNCHANGED <<static_ips, active, customers, rules, sync, agg, poll, evLeft, topLeft,
                   startOK, pure, dns, flowVars>>

\* the select of pollForReenabledUsers takes the closed terminateSignal
PollStop ==
    /\ poll.pc = "wait"
    /\ stop.sig
    /\ poll' = PollReturned(poll)
    /\ lastOp' = NoOp
    /\ UNCHANGED <<static_ips, active, customers, rules, sync, agg, evLeft, topLeft,
                   startOK, auxVars>>

\* ctx.pollers.Wait() returns and so does OnStop
OnStopReturn ==
    /\ stop.pc = "Wait"
    /\ poll.pc = "stopped"
    /\ stop' = [stop EXCEPT !.pc = "returned"]
    /\ lastOp' = NoOp
    /\ UNCHANGED <<static_ips, active, customers, rules, sync, agg, poll, evLeft, topLeft,
                   startOK, pure, dns, flowVars>>

OnStop == OnStopSignal \/ OnStopReturn

\* The system after startup, the chain as the bridged flags say, top-ups to come
\* and no traffic.
InitStop ==
    /\ static_ips = OwnAddress
    /\ active = {}
    /\ customers \in InitCustomers
    /\ rules = [ip \in IPs |-> IF customers[static_ips[ip]].bridged THEN 0 ELSE 1]
    /\ sync = [SyncFresh EXCEPT !.pc = "done"]
    /\ poll = [PollFresh EXCEPT !.pc = "wait"]
    /\ agg = [ip \in IPs |-> AggFresh]
    /\ evLeft = 0
    /\ topLeft = MaxTopUps
    /\ lastOp = NoOp
    /\ startOK = FALSE
    /\ AuxIdle

NextStop ==
    \/ Poller
    \/ PollBridgedCommitFails
    \/ TopUp
    \/ OnStop
    \/ PollStop

\* The poller runs whenever it can, OnStop returns when its wait is over, and a
\* select that again and again finds the terminate signal closed takes that
\* case (Go picks among the ready cases at random).
SpecStop ==
    InitStop /\ [][NextStop]_vars
        /\ WF_vars(Poller) /\ SF_vars(PollStop) /\ WF_vars(OnStopReturn)

\* ---------------------------------------------------------- packet pipeline
\* classify.User: the endpoint is a subscriber address (192.168.151.0/24 without
\* the network's own address); endpoint 1 is a subscriber
User(e) == e = 1 \/ e > 3

\* classify.Local: the endpoint is a private address; endpoint 2 is an Internet host
Local(e) == e # 2

Alive == ~fault.panic

\* the five-tuples of the packets in the capture
CapturedTuples == { t \in FiveTuples : t.tsrc <= MaxPort /\ t.tdst <= MaxPort }

\* sync.Map.LoadOrStore: the existing value if the key is present, else it
\* stores the given one; loaded tells which
LoadOrStore(map, key, new) ==
    IF map[key] # NoChan
    THEN [map |-> map, actual |-> map[key], loaded |-> TRUE]
    ELSE [map |-> [map EXCEPT ![key] = new], actual |-> new, loaded |-> FALSE]

\* make(chan flowEvent): a channel no task has been started on
NewFlowChan == CHOOSE c \in FlowChans : flowTask[c].pc = "unmade"
                                        /\ \A d \in FlowChans : d < c => flowTask[d].pc # "unmade"

\* make(chan usageEvent)
NewUserChan == CHOOSE c \in UserChans : userTask[c].pc = "unmade"
                                        /\ \A d \in UserChans : d < c => userTask[d].pc # "unmade"

\* close(ch) has run: a send on the channel panics
FlowChannelClosed(c) == flowTask[c].pc = "exited"
UserChannelClosed(u) == userTask[u].pc = "exited"

\* a generator that tests the locality of the subscriber's own address
generateUsageEventsOwnSide(flow, amount) ==
    (IF User(flow.nsrc)
     THEN << [user |-> flow.nsrc, amount |-> amount,
              trafficType |-> IF Local(flow.nsrc) THEN "LOCAL_UP" ELSE "EXT_UP"] >>
     ELSE <<>>)
    \o
    (IF User(flow.ndst)
     THEN << [user |-> flow.ndst, amount |-> amount,
              trafficType |-> IF Local(flow.ndst) THEN "LOCAL_DOWN" ELSE "EXT_DOWN"] >>
     ELSE <<>>)

\* generateUsageEvents: the sends to subscriber aggregators one flow event causes
generateUsageEvents(flow, amount) ==
    (IF User(flow.nsrc)
     THEN << [user |-> flow.nsrc, amount |-> amount,
              trafficType |-> IF Local(flow.ndst) THEN "LOCAL_UP" ELSE "EXT_UP"] >>
     ELSE <<>>)
    \o
    (IF User(flow.ndst)
     THEN << [user |-> flow.ndst, amount |-> amount,
              trafficType |-> IF Local(flow.nsrc) THEN "LOCAL_DOWN" ELSE "EXT_DOWN"] >>
     ELSE <<>>)

\* the number of the packet whose event the ingress holds: the packets read
Emitted == MaxPackets - ingress.left

\* the usage events of packet seq, numbered in the order generateUsageEvents
\* sends them (at most two per packet)
Stamped(evs, seq) ==
    [i \in 1..Len(evs) |-> [user |-> evs[i].user, amount |-> evs[i].amount,
                            trafficType |-> evs[i].trafficType, stamp |-> 2 * seq + i]]

\* a sender that hands over its latest send first
NextSendLatest(sends) == sends[Len(sends)]

\* sendToUserAggregator is called for one event at a time and returns when the
\* aggregator has received it
NextSend(sends) == Head(sends)
AfterSend(sends) == SelectSeq(sends, LAMBDA e : e # NextSend(sends))

\* bytesAB = 0; bytesBA = 0 after go LogFlowPeriodic(...)
FlowFlushed(task) == [task EXCEPT !.bytesAB = 0, !.bytesBA = 0]

\* a task that takes the network source alone as its direction A
FlowCountedNetOnly(task, event) ==
    IF event.flow.nsrc = task.flow.nsrc
    THEN [task EXCEPT !.bytesAB = @ + event.amount]
    ELSE [task EXCEPT !.bytesBA = @ + event.amount]

\* case event := <-ch of flowHandler: the direction of the first event is A->B
FlowCounted(task, event) ==
    IF event.flow.nsrc = task.flow.nsrc /\ event.flow.tsrc = task.flow.tsrc
    THEN [task EXCEPT !.bytesAB = @ + event.amount]
    ELSE [task EXCEPT !.bytesBA = @ + event.amount]

RemoveAt(seq, i) == SubSeq(seq, 1, i - 1) \o SubSeq(seq, i + 1, Len(seq))

\* for packet := range packetSource.Packets() : classifyPacket builds the flow
\* event of the next packet
ReadPacket ==
    /\ Alive
    /\ ingress.pc = "read"
    /\ ingress.left > 0
    /\ \E t \in CapturedTuples, n \in 1..MaxPayload :
        /\ ingress' = [ingress EXCEPT !.pc = "load", !.event = [flow |-> t, amount |-> n],
                                      !.left = @ - 1]
        /\ observed' = [observed EXCEPT ![t] = @ + n]
    /\ UNCHANGED <<coreVars, stop, pure, dns, flowHandlers, flowTask, userAggregators, userTask,
                   writers, flowlogs, processed, processingGroup, fault>>

\* the capture file ends or handle.Close() is called: the packet loop ends and
\* main reaches processingGroup.Wait()
CloseCapture ==
    /\ Alive
    /\ ingress.pc = "read"
    /\ ingress' = [ingress EXCEPT !.pc = "wait", !.left = 0]
    /\ UNCHANGED <<coreVars, stop, pure, dns, flowHandlers, flowTask, userAggregators, userTask,
                   writers, flowlogs, observed, processed, processingGroup, fault>>

\* flowHandlers.Load(event.flow.MakeCanonical())
FlowLoad ==
    /\ Alive
    /\ ingress.pc = "load"
    /\ LET ch == flowHandlers[MakeCanonical(ingress.event.flow)]
       IN  ingress' = IF ch # NoChan
                      THEN [ingress EXCEPT !.pc = "send", !.flowChannel = ch]
                      ELSE [ingress EXCEPT !.pc = "store"]
    /\ UNCHANGED <<coreVars, stop, pure, dns, flowHandlers, flowTask, userAggregators, userTask,
                   writers, flowlogs, observed, processed, processingGroup, fault>>

\* flowHandlers.LoadOrStore(...); if !existed { wg.Add(1); go flowHandler(...) }
FlowLoadOrStore ==
    /\ Alive
    /\ ingress.pc = "store"
    /\ LET r == LoadOrStore(flowHandlers, MakeCanonical(ingress.event.flow), NewFlowChan)
       IN  /\ flowHandlers' = r.map
           /\ ingress' = [ingress EXCEPT !.pc = "send", !.flowChannel = r.actual]
           /\ IF r.loaded
              THEN UNCHANGED <<flowTask, processingGroup>>
              ELSE /\ processingGroup' = processingGroup + 1
                   /\ flowTask' = [flowTask EXCEPT ![r.actual] =
                                     [FlowTaskFresh EXCEPT !.pc = "select",
                                                           !.flow = ingress.event.flow]]
    /\ UNCHANGED <<coreVars, stop, pure, dns, userAggregators, userTask, writers, flowlogs,
                   observed, processed, fault>>

\* flowChannel <- event meets case event := <-ch : the task counts the bytes
\* and enters generateUsageEvents
FlowReceive ==
    /\ Alive
    /\ ingress.pc = "send"
    /\ flowTask[ingress.flowChannel].pc = "select"
    /\ LET c == ingress.flowChannel
           sends == Stamped(generateUsageEvents(ingress.event.flow, ingress.event.amount),
                            Emitted)
           key == MakeCanonical(ingress.event.flow)
       IN  /\ flowTask' = [flowTask EXCEPT ![c] =
                             [FlowCounted(flowTask[c], ingress.event) EXCEPT
                                 !.sends = sends,
                                 !.pc = IF sends = <<>> THEN "select" ELSE "load",
                                 !.existed = FALSE]]
           /\ processed' = [processed EXCEPT
                               !.flow[key] = Emitted,
                               !.inOrder = @ /\ Emitted > processed.flow[key]]
    /\ ingress' = [ingress EXCEPT !.pc = "read", !.event = NoEvent, !.flowChannel = NoChan]
    /\ UNCHANGED <<coreVars, stop, pure, dns, flowHandlers, userAggregators, userTask, writers,
                   flowlogs, observed, processingGroup, fault>>

\* flowChannel <- event on a channel its task has closed: the process panics
SendOnClosedFlowChannel ==
    /\ Alive
    /\ ingress.pc = "send"
    /\ FlowChannelClosed(ingress.flowChannel)
    /\ fault' = [fault EXCEPT !.panic = TRUE]
    /\ UNCHANGED <<coreVars, stop, pure, dns, ingress, flowHandlers, flowTask, userAggregators,
                   userTask, writers, flowlogs, observed, processed, processingGroup>>

\* case <-ticker.C of flowHandler
FlowTick(c) ==
    /\ Alive
    /\ flowTask[c].pc = "select"
    /\ IF flowTask[c].bytesAB = 0 /\ flowTask[c].bytesBA = 0
       THEN /\ flowTask' = [flowTask EXCEPT ![c].pc = "Delete"]
            /\ UNCHANGED <<writers, processingGroup>>
       ELSE /\ processingGroup' = processingGroup + 1
            /\ writers' = Append(writers, [flow |-> flowTask[c].flow,
                                           bytesAB |-> flowTask[c].bytesAB,
                                           bytesBA |-> flowTask[c].bytesBA])
            /\ flowTask' = [flowTask EXCEPT ![c] = FlowFlushed(@)]
    /\ UNCHANGED <<coreVars, stop, pure, dns, ingress, flowHandlers, userAggregators, userTask,
                   flowlogs, observed, processed, fault>>

\* defer flowHandlers.Delete(flow.MakeCanonical())
FlowDelete(c) ==
    /\ Alive
    /\ flowTask[c].pc = "Delete"
    /\ flowHandlers' = [flowHandlers EXCEPT ![MakeCanonical(flowTask[c].flow)] = NoChan]
    /\ flowTask' = [flowTask EXCEPT ![c].pc = "close"]
    /\ UNCHANGED <<coreVars, stop, pure, dns, ingress, userAggregators, userTask, writers,
                   flowlogs, observed, processed, processingGroup, fault>>

\* defer close(ch); defer wg.Done()
FlowClose(c) ==
    /\ Alive
    /\ flowTask[c].pc = "close"
    /\ flowTask' = [flowTask EXCEPT ![c] = [FlowTaskFresh EXCEPT !.pc = "exited"]]
    /\ processingGroup' = processingGroup - 1
    /\ UNCHANGED <<coreVars, stop, pure, dns, ingress, flowHandlers, userAggregators, userTask,
                   writers, flowlogs, observed, processed, fault>>

\* LogFlowPeriodic: storage.LogFlow inserts the row; defer wg.Done()
WriteFlowLog(i) ==
    /\ Alive
    /\ i \in 1..Len(writers)
    /\ flowlogs' = [flowlogs EXCEPT ![writers[i].flow] =
                      [ab |-> @.ab + writers[i].bytesAB, ba |-> @.ba + writers[i].bytesBA]]
    /\ writers' = RemoveAt(writers, i)
    /\ processingGroup' = processingGroup - 1
    /\ UNCHANGED <<coreVars, stop, pure, dns, ingress, flowHandlers, flowTask, userAggregators,
                   userTask, observed, processed, fault>>

\* LogFlowPeriodic: the INSERT fails, LogFlow logs the error and returns
WriteFlowLogFails(i) ==
    /\ Alive
    /\ i \in 1..Len(writers)
    /\ fault' = [fault EXCEPT !.logFlowErr = TRUE]
    /\ writers' = RemoveAt(writers, i)
    /\ processingGroup' = processingGroup - 1
    /\ UNCHANGED <<coreVars, stop, pure, dns, ingress, flowHandlers, flowTask, userAggregators,
                   userTask, flowlogs, observed, processed>>

\* userAggregators.Load(user) in sendToUserAggregator, called by flow task c
UserLoad(c) ==
    /\ Alive
    /\ flowTask[c].pc = "load"
    /\ LET ch == userAggregators[NextSend(flowTask[c].sends).user]
       IN  flowTask' = IF ch # NoChan
                       THEN [flowTask EXCEPT ![c].pc = "send", ![c].userChannel = ch]
                       ELSE [flowTask EXCEPT ![c].pc = "store"]
    /\ UNCHANGED <<coreVars, stop, pure, dns, ingress, flowHandlers, userAggregators, userTask,
                   writers, flowlogs, observed, processed, processingGroup, fault>>

\* userAggregators.LoadOrStore(...); if !existed { wg.Add(1); go aggregateUser(...) }
UserLoadOrStore(c) ==
    /\ Alive
    /\ flowTask[c].pc = "store"
    /\ LET user == NextSend(flowTask[c].sends).user
           r == LoadOrStore(userAggregators, user, NewUserChan)
       IN  /\ userAggregators' = r.map
           /\ flowTask' = [flowTask EXCEPT ![c].pc = "send", ![c].userChannel = r.actual,
                                           ![c].existed = r.loaded]
           /\ IF r.loaded
              THEN UNCHANGED <<userTask, processingGroup>>
              ELSE /\ processingGroup' = processingGroup + 1
                   /\ userTask' = [userTask EXCEPT ![r.actual] =
                                     [UserTaskFresh EXCEPT !.pc = "Init", !.user = user]]
    /\ UNCHANGED <<coreVars, stop, pure, dns, ingress, flowHandlers, writers, flowlogs, observed, processed,
                   fault>>

\* the address of a subscriber endpoint in static_ips
EndpointIP(e) == IF e = 1 THEN "ip1" ELSE "ip2"

\* the address LogUsage looks up for the subscriber task on channel u
UserAddress(u) == EndpointIP(userTask[u].user)

\* the counters and the context of subscriber task u, as LogUserPeriodic and
\* LogUsage are called with them
UserCounters(u) ==
    [AggFresh EXCEPT !.localUp = userTask[u].localUp, !.localDown = userTask[u].localDown,
                     !.extUp = userTask[u].extUp, !.extDown = userTask[u].extDown,
                     !.DataBalance = userTask[u].DataBalance]

\* customContext.Init(user) enters storage.LogUsage with zero bytes; the
\* transaction runs as LogUsageRead, LogUsageCommit and their failures
UserInit(u) ==
    /\ Alive
    /\ userTask[u].pc = "Init"
    /\ agg[UserAddress(u)].pc = "absent"
    /\ agg' = [agg EXCEPT ![UserAddress(u)] = CallLogUsage(UserCounters(u), "init", 0, 0)]
    /\ lastOp' = NoOp
    /\ UNCHANGED <<auxVars, static_ips, active, customers, rules, sync, poll, evLeft, topLeft,
                   startOK>>

\* LogUsage has returned to customContext.Init: context.DataBalance =
\* status.CurrentDataBalance, which is 0 after an error, and the task enters
\* its loop
UserInitDone(u) ==
    /\ Alive
    /\ userTask[u].pc = "Init"
    /\ agg[UserAddress(u)].pc = "select"
    /\ userTask' = [userTask EXCEPT ![u].pc = "select",
                                    ![u].DataBalance = agg[UserAddress(u)].DataBalance]
    /\ agg' = [agg EXCEPT ![UserAddress(u)] = AggFresh]
    /\ lastOp' = NoOp
    /\ UNCHANGED <<static_ips, active, customers, rules, sync, poll, evLeft, topLeft, startOK,
                   stop, pure, dns, ingress, flowHandlers, flowTask, userAggregators,
                   writers, flowlogs, observed, processed, processingGroup, fault>>

\* userChannel <- event meets case newEvent := <-ch of aggregateUser
UserReceive(c) ==
    /\ Alive
    /\ flowTask[c].pc = "send"
    /\ userTask[flowTask[c].userChannel].pc = "select"
    /\ LET u == flowTask[c].userChannel
           ev == NextSend(flowTask[c].sends)
           a == AddEvent(userTask[u], ev.trafficType, ev.amount)
           key == <<MakeCanonical(flowTask[c].flow), ev.user>>
       IN  /\ userTask' = [userTask EXCEPT ![u] =
                             [a EXCEPT !.pc = IF ShouldLogNow(a.DataBalance, a.extUp + a.extDown)
                                       THEN "LogUserPeriodic" ELSE "select"]]
           /\ flowTask' = [flowTask EXCEPT ![c].sends = AfterSend(@), ![c].userChannel = NoChan,
                                           ![c].pc = IF AfterSend(flowTask[c].sends) = <<>>
                                                     THEN "select" ELSE "load"]
           /\ processed' = [processed EXCEPT
                               !.user[key] = ev.stamp,
                               !.inOrder = @ /\ ev.stamp > processed.user[key]]
    /\ UNCHANGED <<coreVars, stop, pure, dns, ingress, flowHandlers, userAggregators, writers,
                   flowlogs, observed, processingGroup, fault>>

\* userChannel <- event on a channel its task has closed: the process panics
SendOnClosedUserChannel(c) ==
    /\ Alive
    /\ flowTask[c].pc = "send"
    /\ UserChannelClosed(flowTask[c].userChannel)
    /\ fault' = [fault EXCEPT !.panic = TRUE]
    /\ UNCHANGED <<coreVars, stop, pure, dns, ingress, flowHandlers, flowTask, userAggregators,
                   userTask, writers, flowlogs, observed, processed, processingGroup>>

\* LogUserPeriodic(user, localUpBytes, localDownBytes, extUpBytes, extDownBytes)
\* is entered: LogUsage of the extern bytes, then verifyBalance with its
\* EnableForwardingFilter and UpdateBridgedState
UserLogUserPeriodic(u) ==
    /\ Alive
    /\ userTask[u].pc = "LogUserPeriodic"
    /\ agg[UserAddress(u)].pc = "absent"
    /\ agg' = [agg EXCEPT ![UserAddress(u)] = LogUserPeriodic(UserCounters(u))]
    /\ lastOp' = NoOp
    /\ UNCHANGED <<auxVars, static_ips, active, customers, rules, sync, poll, evLeft, topLeft,
                   startOK>>

\* LogUserPeriodic has returned; the four counters are zeroed
UserLogged(u) ==
    /\ Alive
    /\ userTask[u].pc = "LogUserPeriodic"
    /\ agg[UserAddress(u)].pc = "select"
    /\ userTask' = [userTask EXCEPT ![u] = [ZeroCounters(@) EXCEPT !.pc = "select"]]
    /\ agg' = [agg EXCEPT ![UserAddress(u)] = AggFresh]
    /\ lastOp' = NoOp
    /\ UNCHANGED <<static_ips, active, customers, rules, sync, poll, evLeft, topLeft, startOK,
                   stop, pure, dns, ingress, flowHandlers, flowTask, userAggregators,
                   writers, flowlogs, observed, processed, processingGroup, fault>>

\* case <-logTick.C of aggregateUser
UserTick(u) ==
    /\ Alive
    /\ userTask[u].pc = "select"
    /\ LET a == userTask[u]
       IN  userTask' = [userTask EXCEPT ![u].pc =
                          IF a.localUp = 0 /\ a.localDown = 0 /\ a.extUp = 0 /\ a.extDown = 0
                          THEN "Delete" ELSE "LogUserPeriodic"]
    /\ UNCHANGED <<coreVars, stop, pure, dns, ingress, flowHandlers, flowTask, userAggregators,
                   writers, flowlogs, observed, processed, processingGroup, fault>>

\* defer userAggregators.Delete(user)
UserDelete(u) ==
    /\ Alive
    /\ userTask[u].pc = "Delete"
    /\ userAggregators' = [userAggregators EXCEPT ![userTask[u].user] = NoChan]
    /\ userTask' = [userTask EXCEPT ![u].pc = "close"]
    /\ UNCHANGED <<coreVars, stop, pure, dns, ingress, flowHandlers, flowTask, writers, flowlogs,
                   observed, processed, processingGroup, fault>>

\* defer close(ch); defer wg.Done()
UserClose(u) ==
    /\ Alive
    /\ userTask[u].pc = "close"
    /\ userTask' = [userTask EXCEPT ![u] = [UserTaskFresh EXCEPT !.pc = "exited"]]
    /\ processingGroup' = processingGroup - 1
    /\ UNCHANGED <<coreVars, stop, pure, dns, ingress, flowHandlers, flowTask, userAggregators,
                   writers, flowlogs, observed, processed, fault>>

\* processingGroup.Wait() returns and main ends
MainWait ==
    /\ Alive
    /\ ingress.pc = "wait"
    /\ processingGroup = 0
    /\ ingress' = [ingress EXCEPT !.pc = "exit"]
    /\ UNCHANGED <<coreVars, stop, pure, dns, flowHandlers, flowTask, userAggregators, userTask,
                   writers, flowlogs, observed, processed, processingGroup, fault>>

Ingress == ReadPacket \/ CloseCapture \/ FlowLoad \/ FlowLoadOrStore \/ SendOnClosedFlowChannel
              \/ MainWait

flowHandler(c) ==
    \/ FlowTick(c) \/ FlowDelete(c) \/ FlowClose(c)
    \/ UserLoad(c) \/ UserLoadOrStore(c) \/ SendOnClosedUserChannel(c)

aggregateUser(u) ==
    \/ UserInit(u) \/ UserInitDone(u) \/ UserLogUserPeriodic(u) \/ UserLogged(u)
    \/ UserTick(u) \/ UserDelete(u) \/ UserClose(u)

\* the calls a subscriber task is inside of: the transaction of LogUsage,
\* then verifyBalance, EnableForwardingFilter and UpdateBridgedState
UserStoreCall(ip) ==
    /\ Alive
    /\ \/ LogUsageRead(ip) \/ LogUsageCommit(ip) \/ VerifyBalance(ip)
       \/ EnforceProbe(ip) \/ EnforceInsert(ip) \/ EnforceBridged(ip)

\* the same calls when a statement or a commit of the store fails, or the
\* iptables insert
UserStoreFault(ip) ==
    /\ Alive
    /\ \/ LogUsageCommitFails(ip) \/ LogUsageStatementFails(ip)
       \/ EnforceInsertFails(ip) \/ EnforceBridgedCommitFails(ip)

LogFlowPeriodic == \E i \in 1..MaxPackets : WriteFlowLog(i) \/ WriteFlowLogFails(i)

\* the packet pipeline from the first packet on, no poller and no top-up
InitFlow ==
    /\ CoreIdle
    /\ stop = StopFresh
    /\ pure = NoPure
    /\ dns = DnsIdle
    /\ ingress = IngressFresh
    /\ FlowIdle

NextFlow ==
    \/ Ingress
    \/ FlowReceive
    \/ \E c \in FlowChans : flowHandler(c) \/ UserReceive(c)
    \/ \E u \in UserChans : aggregateUser(u)
    \/ \E ip \in IPs : UserStoreCall(ip)
    \/ LogFlowPeriodic

\* the store and iptables do not fail under the subscriber tasks; a flow-log
\* INSERT may fail
SpecFlow == InitFlow /\ [][NextFlow]_vars

\* the pipeline with one packet left to read, the store and iptables failing
\* under the subscriber task
InitLastPacket ==
    /\ CoreIdle
    /\ stop = StopFresh
    /\ pure = NoPure
    /\ dns = DnsIdle
    /\ ingress = [IngressFresh EXCEPT !.left = 1]
    /\ FlowIdle

NextFlowFaults ==
    \/ NextFlow
    \/ \E ip \in IPs : UserStoreFault(ip)

SpecFlowFaults == InitLastPacket /\ [][NextFlowFaults]_vars

\* Scheduling: while some goroutine of the pipeline can take a step (a ticker
\* fires, the store answers, a blocked send meets its receiver), one of them does.
FairFlow == WF_vars(NextFlow)

SpecDrain == InitFlow /\ [][NextFlow]_vars /\ FairFlow

\* --------------------------------------------------------- packet classifier
\* the sentinel classifyPacket starts transportProtocol with
UnhandledProtocol == 255
\* IP protocol numbers of TCP and UDP
IpProtocols == {6, 17}

\* what classifyPacket reads of a packet: the type of its link layer and of
\* its network layer, whether it has a transport layer, whether the type
\* assertion of the network layer succeeds, and the protocol field of the
\* IP header
Packets ==
    [link : {"none", "Ethernet", "other"}, net : {"none", "IPv4", "IPv6", "other"},
     transport : BOOLEAN, ok : BOOLEAN, Protocol : IpProtocols]

\* classifyPacket returned before sendToFlowHandler
NotForwarded == [sent |-> FALSE, TransportProtocol |-> UnhandledProtocol]

\* classifyPacket up to its call of sendToFlowHandler: the returns for an
\* unsupported link layer, a missing network layer, a missing transport
\* layer and a failed IPv4 or IPv6 type assertion; a network layer of
\* another type is logged and the function goes on with the sentinel
classifyPacket(p) ==
    IF p.link # "none" /\ p.link # "Ethernet" THEN NotForwarded
    ELSE IF p.net = "none" THEN NotForwarded
    ELSE IF ~p.transport THEN NotForwarded
    ELSE IF p.net \in {"IPv4", "IPv6"} /\ ~p.ok THEN NotForwarded
    ELSE [sent |-> TRUE,
          TransportProtocol |-> IF p.net \in {"IPv4", "IPv6"} THEN p.Protocol
                                ELSE UnhandledProtocol]

classifyPacketInputs ==
    { [fn |-> "classifyPacket", p |-> p, done |-> FALSE, out |-> NotForwarded] : p \in Packets }

\* ------------------------------------------------------ usage event generator
\* the addresses generateUsageEvents is studied on: 1 and 4 are subscribers,
\* 2 is an Internet host, 3 is a private address that is no subscriber
MaxClassified == 4
ClassifiedEndpoints == 1..MaxClassified

generateUsageEventsInputs ==
    { [fn |-> "generateUsageEvents", flow |-> [nsrc |-> s, ndst |-> d, tsrc |-> ts, tdst |-> td,
                                               proto |-> "udp"],
       amount |-> n, done |-> FALSE, out |-> <<>>] :
        s \in ClassifiedEndpoints, d \in ClassifiedEndpoints,
        ts \in Endpoints, td \in Endpoints, n \in 1..MaxAmount }

\* ------------------------------------------------- functions of the program
\* verifyBalance(status) is called: the side effects of the case that fires
ApplyVerifyBalance ==
    /\ pure.fn = "verifyBalance"
    /\ ~pure.done
    /\ pure' = [pure EXCEPT !.done = TRUE,
                            !.fired = IF verifyBalance(pure.cur, pure.prior) = "none"
                                      THEN <<>>
                                      ELSE <<verifyBalance(pure.cur, pure.prior)>>]
    /\ UNCHANGED <<coreVars, stop, dns, flowVars>>

\* MakeCanonical is called on a five-tuple and on its reverse
ApplyMakeCanonical ==
    /\ pure.fn = "MakeCanonical"
    /\ ~pure.done
    /\ pure' = [pure EXCEPT !.done = TRUE,
                            !.out = MakeCanonical(pure.t),
                            !.outReverse = MakeCanonical(Reverse(pure.t))]
    /\ UNCHANGED <<coreVars, stop, dns, flowVars>>

\* both ShouldLogNow methods are called with the same context and argument
ApplyShouldLogNow ==
    /\ pure.fn = "ShouldLogNow"
    /\ ~pure.done
    /\ pure' = [pure EXCEPT !.done = TRUE,
                            !.out = ShouldLogNow(pure.DataBalance, pure.outstandingData),
                            !.outTypes = ShouldLogNowTypes(pure.DataBalance,
                                                           pure.outstandingData)]
    /\ UNCHANGED <<coreVars, stop, dns, flowVars>>

ApplyClassifyPacket ==
    /\ pure.fn = "classifyPacket"
    /\ ~pure.done
    /\ pure' = [pure EXCEPT !.done = TRUE, !.out = classifyPacket(pure.p)]
    /\ UNCHANGED <<coreVars, stop, dns, flowVars>>

\* FiveTuple.SameBidirectionalFlow: equal network flows need equal transport
\* flows, reversed network flows need reversed transport flows; the first
\* test decides for a loopback tuple, whose network flow is its own reverse
SameBidirectionalFlow(t, other) ==
    IF t.nsrc = other.nsrc /\ t.ndst = other.ndst
    THEN t.proto = other.proto /\ t.tsrc = other.tsrc /\ t.tdst = other.tdst
    ELSE IF t.ndst = other.nsrc /\ t.nsrc = other.ndst
    THEN t.proto = other.proto /\ t.tdst = other.tsrc /\ t.tsrc = other.tdst
    ELSE FALSE

SameBidirectionalFlowInputs ==
    { [fn |-> "SameBidirectionalFlow", t |-> a, other |-> b, done |-> FALSE, out |-> FALSE] :
        a \in FiveTuples, b \in FiveTuples }

ApplySameBidirectionalFlow ==
    /\ pure.fn = "SameBidirectionalFlow"
    /\ ~pure.done
    /\ pure' = [pure EXCEPT !.done = TRUE, !.out = SameBidirectionalFlow(pure.t, pure.other)]
    /\ UNCHANGED <<coreVars, stop, dns, flowVars>>

ApplyGenerateUsageEvents ==
    /\ pure.fn = "generateUsageEvents"
    /\ ~pure.done
    /\ pure' = [pure EXCEPT !.done = TRUE,
                            !.out = generateUsageEvents(pure.flow, pure.amount)]
    /\ UNCHANGED <<coreVars, stop, dns, flowVars>>

InitPure ==
    /\ CoreIdle
    /\ stop = StopFresh
    /\ ingress = [IngressFresh EXCEPT !.pc = "off"]
    /\ FlowIdle
    /\ dns = DnsIdle
    /\ pure \in verifyBalanceInputs \cup MakeCanonicalInputs \cup ShouldLogNowInputs
                  \cup classifyPacketInputs \cup generateUsageEventsInputs
                  \cup SameBidirectionalFlowInputs

NextPure ==
    \/ ApplyVerifyBalance
    \/ ApplyMakeCanonical
    \/ ApplyShouldLogNow
    \/ ApplyClassifyPacket
    \/ ApplyGenerateUsageEvents
    \/ ApplySameBidirectionalFlow

SpecPure == InitPure /\ [][NextPure]_vars

\* ------------------------------------------------------------ one flow task
\* one flowHandler goroutine by itself: the events it receives, its ticks and
\* the rows it hands to LogFlowPeriodic, with the readings of the clock
MaxFlowEvents == 2
MaxTime == 3
\* payload lengths of the packets
FlowAmounts == {400, 600}

\* a task that keeps the start of its interval after a row
IntervalKept(intervalStart, intervalEnd) == intervalStart

\* intervalStart = intervalEnd
IntervalAdvanced(intervalStart, intervalEnd) == intervalEnd

\* go flowHandler(newChannel, event.flow, wg): intervalStart := time.Now(),
\* both counters zero, the entry in flowHandlers
flowHandlerInputs ==
    { [fn |-> "flowHandler", pc |-> "select", flow |-> t, bytesAB |-> 0, bytesBA |-> 0,
       intervalStart |-> 0, received |-> <<>>, rows |-> <<>>, inMap |-> TRUE] :
        t \in FiveTuples }

\* case event := <-ch : the first event is the one sendToFlowHandler created
\* the task for, the later ones are of the same canonical flow
FlowHandlerEvent ==
    /\ pure.fn = "flowHandler"
    /\ pure.pc = "select"
    /\ Len(pure.received) < MaxFlowEvents
    /\ \E f \in {pure.flow, Reverse(pure.flow)}, n \in FlowAmounts :
        /\ pure.received = <<>> => f = pure.flow
        /\ LET event == [flow |-> f, amount |-> n]
           IN  pure' = [FlowCounted(pure, event) EXCEPT !.received = Append(@, event)]
    /\ UNCHANGED <<coreVars, stop, dns, flowVars>>

\* case <-ticker.C at a later reading of the clock: an idle task returns and
\* its deferred Delete runs, a task with bytes hands one row to LogFlowPeriodic
FlowHandlerTick ==
    /\ pure.fn = "flowHandler"
    /\ pure.pc = "select"
    /\ \E intervalEnd \in (pure.intervalStart + 1)..MaxTime :
        pure' = IF pure.bytesAB = 0 /\ pure.bytesBA = 0
                THEN [pure EXCEPT !.pc = "exited", !.inMap = FALSE]
                ELSE [FlowFlushed(pure) EXCEPT
                         !.rows = Append(@, [start |-> pure.intervalStart, stop |-> intervalEnd,
                                             flow |-> pure.flow, bytesAB |-> pure.bytesAB,
                                             bytesBA |-> pure.bytesBA]),
                         !.intervalStart = IntervalAdvanced(pure.intervalStart, intervalEnd)]
    /\ UNCHANGED <<coreVars, stop, dns, flowVars>>

InitFlowTask ==
    /\ CoreIdle
    /\ stop = StopFresh
    /\ ingress = [IngressFresh EXCEPT !.pc = "off"]
    /\ FlowIdle
    /\ dns = DnsIdle
    /\ pure \in flowHandlerInputs

NextFlowTask == FlowHandlerEvent \/ FlowHandlerTick

SpecFlowTask == InitFlowTask /\ [][NextFlowTask]_vars

\* ------------------------------------------------------- traffic detector
\* The TrafficDetector for the packets of one bidirectional flow: the entry of
\* tdf.flowHandlers for its canonical form, the channels made, the handler
\* goroutine of each, the ingress, tdf.userAggregators and the subscriber
\* aggregators the handlers send to, and tdf.waitGroup
MaxTdfPackets == 3
\* each call of sendToFlowHandler makes at most two channels
TdfChans == 1..(2 * MaxTdfPackets)
\* each packet causes at most two usage events, each at most one aggregator
TdfUserChans == 1..(2 * MaxTdfPackets)

TdfHandlerFresh == [pc |-> "unmade", bytes |-> 0, sends |-> <<>>, userChannel |-> NoChan]

\* aggregateUser before it is started; customContext is
\* types.UserContext{DataBalance: 0}, its Init is commented out
TdfAggregatorFresh ==
    [pc |-> "unmade", user |-> 0, localUp |-> 0, localDown |-> 0, extUp |-> 0, extDown |-> 0,
     DataBalance |-> 0]

TdfInputs ==
    { [fn |-> "TrafficDetector", flow |-> t, flowHandlers |-> NoChan, made |-> 0,
       handler |-> [c \in TdfChans |-> TdfHandlerFresh],
       userAggregators |-> [e \in Endpoints |-> NoChan], madeUser |-> 0,
       aggregator |-> [k \in TdfUserChans |-> TdfAggregatorFresh],
       pc |-> "read", flowChannel |-> NoChan, event |-> NoEvent, left |-> MaxTdfPackets,
       delivered |-> 0, waitGroup |-> 0, panic |-> FALSE, fatal |-> FALSE] :
        t \in CapturedTuples }

\* tdf.flowHandlers[canonicalFlow] = make(chan FlowEvent): a second channel,
\* not flowChannel
TdfStored(flowChannel, fresh) == fresh

\* the process has neither panicked nor ended in log.Fatal
TdfAlive == pure.fn = "TrafficDetector" /\ ~pure.panic /\ ~pure.fatal

\* sendToFlowHandler from Lock to Unlock, for the next packet of the flow
TdfSendToFlowHandler ==
    /\ TdfAlive
    /\ pure.pc = "read"
    /\ pure.left > 0
    /\ \E f \in {pure.flow, Reverse(pure.flow)}, n \in 1..MaxPayload :
        LET event == [flow |-> f, amount |-> n]
            flowChannel == pure.made + 1
        IN  pure' = IF pure.flowHandlers = NoChan
                    THEN [pure EXCEPT !.pc = "send", !.event = event, !.left = @ - 1,
                                      !.flowChannel = flowChannel,
                                      !.flowHandlers = TdfStored(flowChannel, pure.made + 2),
                                      !.made = @ + 2,
                                      !.waitGroup = @ + 1,
                                      !.handler[flowChannel].pc = "select"]
                    ELSE [pure EXCEPT !.pc = "send", !.event = event, !.left = @ - 1,
                                      !.flowChannel = pure.flowHandlers]
    /\ UNCHANGED <<coreVars, stop, dns, flowVars>>

\* flowChannel <- event meets case event := <-ch of the handler on that
\* channel: the bytes are counted and the handler enters
\* tdf.generateUsageEvents, where it stays until its sends are taken
TdfReceive ==
    /\ TdfAlive
    /\ pure.pc = "send"
    /\ pure.handler[pure.flowChannel].pc = "select"
    /\ LET sends == generateUsageEvents(pure.event.flow, pure.event.amount)
       IN  pure' = [pure EXCEPT !.pc = "read", !.event = NoEvent, !.flowChannel = NoChan,
                                !.handler[pure.flowChannel].bytes = @ + pure.event.amount,
                                !.handler[pure.flowChannel].sends = sends,
                                !.handler[pure.flowChannel].pc =
                                    IF sends = <<>> THEN "select" ELSE "sendToUserAggregator",
                                !.delivered = @ + 1]
    /\ UNCHANGED <<coreVars, stop, dns, flowVars>>

\* sendToUserAggregator from usageMux.Lock to Unlock: the channel of the
\* user, or a new one stored in tdf.userAggregators with waitGroup.Add(1) and
\* go tdf.aggregateUser
TdfSendToUserAggregator(c) ==
    /\ TdfAlive
    /\ pure.handler[c].pc = "sendToUserAggregator"
    /\ LET user == Head(pure.handler[c].sends).user
           userChannel == pure.madeUser + 1
       IN  pure' = IF pure.userAggregators[user] = NoChan
                   THEN [pure EXCEPT !.handler[c].pc = "userChannel",
                                     !.handler[c].userChannel = userChannel,
                                     !.userAggregators[user] = userChannel,
                                     !.madeUser = @ + 1,
                                     !.waitGroup = @ + 1,
                                     !.aggregator[userChannel] =
                                         [TdfAggregatorFresh EXCEPT !.pc = "select",
                                                                    !.user = user]]
                   ELSE [pure EXCEPT !.handler[c].pc = "userChannel",
                                     !.handler[c].userChannel = pure.userAggregators[user]]
    /\ UNCHANGED <<coreVars, stop, dns, flowVars>>

\* userChannel <- event meets case newEvent := <-ch of aggregateUser; the
\* handler goes on to its next send or back to its select
TdfUserReceive(c) ==
    /\ TdfAlive
    /\ pure.handler[c].pc = "userChannel"
    /\ pure.aggregator[pure.handler[c].userChannel].pc = "select"
    /\ LET k == pure.handler[c].userChannel
           ev == Head(pure.handler[c].sends)
           a == AddEvent(pure.aggregator[k], ev.trafficType, ev.amount)
           rest == Tail(pure.handler[c].sends)
       IN  pure' = [pure EXCEPT
                       !.aggregator[k] =
                           [a EXCEPT !.pc = IF ShouldLogNowTypes(a.DataBalance,
                                                                 a.extUp + a.extDown)
                                            THEN "sendUsage" ELSE "select"],
                       !.handler[c].sends = rest,
                       !.handler[c].userChannel = NoChan,
                       !.handler[c].pc = IF rest = <<>> THEN "select"
                                         ELSE "sendToUserAggregator"]
    /\ UNCHANGED <<coreVars, stop, dns, flowVars>>

\* close(ch) of cleanupAggregator has run
TdfUserChannelClosed(k) == pure.aggregator[k].pc \in {"Lock", "exited"}

\* userChannel <- event on a channel cleanupAggregator has closed: the
\* process panics
TdfUserSendOnClosed(c) ==
    /\ TdfAlive
    /\ pure.handler[c].pc = "userChannel"
    /\ TdfUserChannelClosed(pure.handler[c].userChannel)
    /\ pure' = [pure EXCEPT !.panic = TRUE]
    /\ UNCHANGED <<coreVars, stop, dns, flowVars>>

\* case <-logTick.C of aggregateUser: with four zero counters it returns into
\* the deferred cleanupAggregator, whose first statement is
\* waitGroup.Done(); otherwise it enters tdf.sendUsage
TdfUserTick(k) ==
    /\ TdfAlive
    /\ pure.aggregator[k].pc = "select"
    /\ LET a == pure.aggregator[k]
       IN  pure' = IF a.localUp = 0 /\ a.localDown = 0 /\ a.extUp = 0 /\ a.extDown = 0
                   THEN [pure EXCEPT !.aggregator[k].pc = "close", !.waitGroup = @ - 1]
                   ELSE [pure EXCEPT !.aggregator[k].pc = "sendUsage"]
    /\ UNCHANGED <<coreVars, stop, dns, flowVars>>

\* tdf.sendUsage: the RADIUS exchange succeeds and the four counters are zeroed
TdfSendUsage(k) ==
    /\ TdfAlive
    /\ pure.aggregator[k].pc = "sendUsage"
    /\ pure' = [pure EXCEPT !.aggregator[k] = [ZeroCounters(@) EXCEPT !.pc = "select"]]
    /\ UNCHANGED <<coreVars, stop, dns, flowVars>>

\* tdf.sendUsage: radius.Exchange returns an error and log.Fatal ends the process
TdfSendUsageFails(k) ==
    /\ TdfAlive
    /\ pure.aggregator[k].pc = "sendUsage"
    /\ pure' = [pure EXCEPT !.fatal = TRUE]
    /\ UNCHANGED <<coreVars, stop, dns, flowVars>>

\* close(ch) of cleanupAggregator; the entry of the user is still in the map
TdfUserClose(k) ==
    /\ TdfAlive
    /\ pure.aggregator[k].pc = "close"
    /\ pure' = [pure EXCEPT !.aggregator[k].pc = "Lock"]
    /\ UNCHANGED <<coreVars, stop, dns, flowVars>>

\* tdf.usageMux.Lock(); delete(tdf.userAggregators, user); Unlock()
TdfUserDelete(k) ==
    /\ TdfAlive
    /\ pure.aggregator[k].pc = "Lock"
    /\ pure' = [pure EXCEPT !.aggregator[k].pc = "exited",
                            !.userAggregators[pure.aggregator[k].user] = NoChan]
    /\ UNCHANGED <<coreVars, stop, dns, flowVars>>

\* case <-ticker.C : an idle handler returns into the deferred cleanupFlow,
\* whose first statement is waitGroup.Done(); a handler with bytes zeroes
\* its counters
TdfTick(c) ==
    /\ TdfAlive
    /\ pure.handler[c].pc = "select"
    /\ pure' = IF pure.handler[c].bytes = 0
               THEN [pure EXCEPT !.handler[c].pc = "close", !.waitGroup = @ - 1]
               ELSE [pure EXCEPT !.handler[c].bytes = 0]
    /\ UNCHANGED <<coreVars, stop, dns, flowVars>>

\* close(ch) of cleanupFlow; the entry of the flow is still in the map
TdfClose(c) ==
    /\ TdfAlive
    /\ pure.handler[c].pc = "close"
    /\ pure' = [pure EXCEPT !.handler[c].pc = "Lock"]
    /\ UNCHANGED <<coreVars, stop, dns, flowVars>>

\* tdf.flowMux.Lock(); delete(tdf.flowHandlers, flow.MakeCanonical());
\* Unlock() of cleanupFlow
TdfDelete(c) ==
    /\ TdfAlive
    /\ pure.handler[c].pc = "Lock"
    /\ pure' = [pure EXCEPT !.handler[c].pc = "exited", !.flowHandlers = NoChan]
    /\ UNCHANGED <<coreVars, stop, dns, flowVars>>

\* close(ch) has run
TdfChannelClosed(c) == pure.handler[c].pc \in {"Lock", "exited"}

\* flowChannel <- event on a channel cleanupFlow has closed: the process panics
TdfSendOnClosed ==
    /\ TdfAlive
    /\ pure.pc = "send"
    /\ TdfChannelClosed(pure.flowChannel)
    /\ pure' = [pure EXCEPT !.panic = TRUE]
    /\ UNCHANGED <<coreVars, stop, dns, flowVars>>

InitTdf ==
    /\ CoreIdle
    /\ stop = StopFresh
    /\ ingress = [IngressFresh EXCEPT !.pc = "off"]
    /\ FlowIdle
    /\ dns = DnsIdle
    /\ pure \in TdfInputs

NextTdf ==
    \/ TdfSendToFlowHandler
    \/ TdfReceive
    \/ \E c \in TdfChans :
          \/ TdfTick(c) \/ TdfClose(c) \/ TdfDelete(c)
          \/ TdfSendToUserAggregator(c) \/ TdfUserReceive(c) \/ TdfUserSendOnClosed(c)
    \/ \E k \in TdfUserChans :
          \/ TdfUserTick(k) \/ TdfSendUsage(k) \/ TdfSendUsageFails(k)
          \/ TdfUserClose(k) \/ TdfUserDelete(k)
    \/ TdfSendOnClosed

SpecTdf == InitTdf /\ [][NextTdf]_vars

\* ------------------------------------------------------ calls of the store
\* One caller runs UpdateBridgedState(ip, bridged) against a store at rest and
\* nobody else writes: the call record is `pure`.
UpdateBridgedStateInputs ==
    { [fn |-> "UpdateBridgedState", ip |-> ip, bridged |-> b, i |-> 0, fails |-> 0,
       done |-> FALSE, err |-> "none", other |-> "none"] : ip \in IPs, b \in BOOLEAN }

\* i++ after an attempt; after the last one the call returns
AfterBridgedAttempt(p, fails) ==
    IF UpdateBridgedStateDone(p.i + 1)
    THEN [p EXCEPT !.i = @ + 1, !.fails = fails, !.done = TRUE,
                   !.err = UpdateBridgedStateReturn(fails)]
    ELSE [p EXCEPT !.i = @ + 1, !.fails = fails]

\* one attempt: lookup, UPDATE, Commit succeeds
CallBridgedCommit ==
    /\ pure.fn = "UpdateBridgedState"
    /\ ~pure.done
    /\ LookupImsi(pure.ip) # NoImsi
    /\ customers' = BridgedCommitted(pure.ip, pure.bridged)
    /\ pure' = AfterBridgedAttempt(pure, pure.fails)
    /\ UNCHANGED <<static_ips, active, rules, sync, agg, poll, evLeft, topLeft, lastOp,
                   startOK, stop, dns, flowVars>>

\* one attempt: lookup, UPDATE, Commit fails and is only logged
CallBridgedCommitFails ==
    /\ pure.fn = "UpdateBridgedState"
    /\ ~pure.done
    /\ LookupImsi(pure.ip) # NoImsi
    /\ pure' = AfterBridgedAttempt(pure, pure.fails + 1)
    /\ UNCHANGED <<coreVars, stop, dns, flowVars>>

\* the lookup finds no static_ips row: Rollback, return err
CallBridgedNotFound ==
    /\ pure.fn = "UpdateBridgedState"
    /\ ~pure.done
    /\ LookupImsi(pure.ip) = NoImsi
    /\ pure' = [pure EXCEPT !.done = TRUE, !.err = "NotFound"]
    /\ UNCHANGED <<coreVars, stop, dns, flowVars>>

\* any static_ips table, any flags on the rows, the process at rest
InitStore ==
    /\ static_ips \in {OwnAddress, Unmapped, SharedAccount}
    /\ customers \in [IMSIs -> [raw_up : {0}, raw_down : {0}, data_balance : {MaxBalance},
                                bridged : BOOLEAN, enabled : BOOLEAN]]
    /\ active = {}
    /\ rules = [ip \in IPs |-> 0]
    /\ sync = [SyncFresh EXCEPT !.pc = "done"]
    /\ poll = [PollFresh EXCEPT !.pc = "wait"]
    /\ agg = [ip \in IPs |-> AggFresh]
    /\ evLeft = 0
    /\ topLeft = 0
    /\ lastOp = NoOp
    /\ startOK = TRUE
    /\ stop = StopFresh
    /\ ingress = [IngressFresh EXCEPT !.pc = "off"]
    /\ FlowIdle
    /\ dns = DnsIdle
    /\ pure \in UpdateBridgedStateInputs

NextStore == CallBridgedCommit \/ CallBridgedCommitFails \/ CallBridgedNotFound

SpecStore == InitStore /\ [][NextStore]_vars

\* A second caller runs UpdateBridgedState(ip, ~bridged) for the same address
\* and one of its transactions commits while the first call is in its loop;
\* `other` tells whether the first call had committed by then.
OtherBridgedCommit ==
    /\ pure.fn = "UpdateBridgedState"
    /\ ~pure.done
    /\ pure.other = "none"
    /\ LookupImsi(pure.ip) # NoImsi
    /\ customers' = BridgedCommitted(pure.ip, ~pure.bridged)
    /\ pure' = [pure EXCEPT !.other = IF pure.i > pure.fails THEN "after" ELSE "before"]
    /\ UNCHANGED <<static_ips, active, rules, sync, agg, poll, evLeft, topLeft, lastOp,
                   startOK, stop, dns, flowVars>>

NextBridgedRace == NextStore \/ OtherBridgedCommit

SpecBridgedRace == InitStore /\ [][NextBridgedRace]_vars

\* -------------------------------------------------------------- DNS log
\* answers has UNIQUE KEY (host, ip_addresses, ttls): a row is a (idx, key)
\* pair; a dnsResponses row is tagged with the call that inserted it.

\* an INSERT into a table without the unique key: always a new row
InsertAlways(rows, key, idx) == {[idx |-> idx, key |-> key]}

\* INSERT IGNORE INTO answers(host, ip_addresses, ttls): the row to add
InsertIgnore(rows, key, idx) ==
    IF \E r \in rows : r.key = key THEN {} ELSE {[idx |-> idx, key |-> key]}

\* the rows a transaction of call c reads: the committed ones and its own
VisibleAnswers(c) ==
    dns.answers \cup
        (IF dns.calls[c].inserted = NoIdx THEN {}
         ELSE {[idx |-> dns.calls[c].inserted, key |-> dns.calls[c].key]})

\* another open transaction holds an uncommitted answers row of this triple:
\* the unique index makes the INSERT wait for it
AnswerLocked(c, key) ==
    \E o \in DnsCallers \ {c} : /\ dns.calls[o].inserted # NoIdx
                                /\ dns.calls[o].key = key
                                /\ dns.calls[o].pc \in {"select", "respond", "Commit"}

\* select idx from answers where host=? AND ip_addresses=? AND ttls=?
SelectIdx(rows, key) == (CHOOSE r \in rows : r.key = key).idx

\* the open transaction of a call is dropped
RolledBack(call) == [call EXCEPT !.inserted = NoIdx, !.answerIndex = NoIdx,
                                 !.responded = FALSE]

\* db.Begin() and INSERT IGNORE INTO answers
DnsInsertAnswer(c) ==
    /\ dns.calls[c].pc = "Begin"
    /\ ~AnswerLocked(c, dns.calls[c].key)
    /\ LET new == InsertIgnore(dns.answers, dns.calls[c].key, dns.nextIdx)
       IN dns' = [dns EXCEPT !.calls[c].pc = "select",
                             !.calls[c].inserted = IF new = {} THEN NoIdx ELSE dns.nextIdx,
                             !.nextIdx = IF new = {} THEN @ ELSE @ + 1]
    /\ UNCHANGED <<coreVars, stop, pure, flowVars>>

\* select idx ... Scan(&answerIndex)
DnsSelectIdx(c) ==
    /\ dns.calls[c].pc = "select"
    /\ dns' = [dns EXCEPT !.calls[c].pc = "respond",
                          !.calls[c].answerIndex =
                              SelectIdx(VisibleAnswers(c), dns.calls[c].key)]
    /\ UNCHANGED <<coreVars, stop, pure, flowVars>>

\* INSERT INTO dnsResponses(..., answer)
DnsInsertResponse(c) ==
    /\ dns.calls[c].pc = "respond"
    /\ dns' = [dns EXCEPT !.calls[c].pc = "Commit", !.calls[c].responded = TRUE]
    /\ UNCHANGED <<coreVars, stop, pure, flowVars>>

\* trx.Commit() succeeds: both inserts become visible, return nil
DnsCommit(c) ==
    /\ dns.calls[c].pc = "Commit"
    /\ dns' = [dns EXCEPT
                 !.answers = VisibleAnswers(c),
                 !.dnsResponses = @ \cup {[call |-> c, attempt |-> dns.calls[c].i,
                                          answer |-> dns.calls[c].answerIndex]},
                 !.calls[c] = [RolledBack(@) EXCEPT !.pc = "returned", !.err = "nil"]]
    /\ UNCHANGED <<coreVars, stop, pure, flowVars>>

\* trx.Commit() fails: Warn, next attempt; after the third "data loss"
DnsCommitFails(c) ==
    /\ dns.calls[c].pc = "Commit"
    /\ dns' = [dns EXCEPT
                 !.calls[c] =
                     IF dns.calls[c].i + 1 >= CommitAttempts
                     THEN [RolledBack(@) EXCEPT !.pc = "returned", !.i = @ + 1,
                                                !.err = "data loss: unable to commit"]
                     ELSE [RolledBack(@) EXCEPT !.pc = "Begin", !.i = @ + 1]]
    /\ UNCHANGED <<coreVars, stop, pure, flowVars>>

\* a statement fails: trx.Rollback(), return err
DnsStatementFails(c) ==
    /\ dns.calls[c].pc \in {"select", "respond"}
    /\ dns' = [dns EXCEPT !.calls[c] = [RolledBack(@) EXCEPT !.pc = "returned",
                                                             !.err = "backend"]]
    /\ UNCHANGED <<coreVars, stop, pure, flowVars>>

LogDnsResponse(c) ==
    \/ DnsInsertAnswer(c)
    \/ DnsSelectIdx(c)
    \/ DnsInsertResponse(c)
    \/ DnsCommit(c)
    \/ DnsCommitFails(c)
    \/ DnsStatementFails(c)

\* answers may hold the first triple from an earlier run; every call has its event
InitDns ==
    /\ CoreIdle
    /\ stop = StopFresh
    /\ pure = NoPure
    /\ ingress = [IngressFresh EXCEPT !.pc = "off"]
    /\ FlowIdle
    /\ \E old \in {{}, {[idx |-> 1, key |-> 1]}} :
       \E keys \in [DnsCallers -> Triples] :
          dns = [answers |-> old, dnsResponses |-> {}, nextIdx |-> Cardinality(old) + 1,
                 calls |-> [c \in DnsCallers |->
                               [DnsCallFresh EXCEPT !.pc = "Begin", !.key = keys[c]]]]

NextDns == \E c \in DnsCallers : LogDnsResponse(c)

SpecDns == InitDns /\ [][NextDns]_vars

\* ------------------------------------------------------- end of the process
\* main returns: the deferred Cleanup(&ctx) runs ctx.db.Close()
Cleanup ==
    /\ Alive
    /\ ingress.pc = "exit"
    /\ ingress' = [ingress EXCEPT !.pc = "Cleanup"]
    /\ UNCHANGED <<coreVars, stop, pure, dns, flowHandlers, flowTask, userAggregators, userTask,
                   writers, flowlogs, observed, processed, processingGroup, fault>>

\* main has returned after its deferred calls: the process is over and its
\* goroutines with it
MainReturn ==
    /\ Alive
    /\ ingress.pc = "Cleanup"
    /\ ingress' = [ingress EXCEPT !.pc = "ended"]
    /\ UNCHANGED <<coreVars, stop, pure, dns, flowHandlers, flowTask, userAggregators, userTask,
                   writers, flowlogs, observed, processed, processingGroup, fault>>

\* ctx.db has been closed
DbClosed == ingress.pc \in {"Cleanup", "ended"}

\* no goroutine of the process runs any more: main has returned or a
\* goroutine has panicked
ProcessEnded == ingress.pc = "ended" \/ fault.panic

\* the poller's tick between db.Close() and the end of the process: db.Query
\* returns 'sql: database is closed', QueryToppedUpCustomers logs the error
\* and calls rows.Next() on its nil rows, a nil dereference
PollTickClosed ==
    /\ DbClosed
    /\ ~ProcessEnded
    /\ poll.pc = "wait"
    /\ fault' = [fault EXCEPT !.panic = TRUE]
    /\ UNCHANGED <<coreVars, stop, pure, dns, ingress, flowHandlers, flowTask, userAggregators,
                   userTask, writers, flowlogs, observed, processed, processingGroup>>

\* an iteration of the poller's UpdateBridgedState between db.Close() and the
\* end of the process: db.Begin() fails and the error is returned at once;
\* the poller goes on with its loop
PollBridgedClosed ==
    /\ DbClosed
    /\ ~ProcessEnded
    /\ poll.pc = "ubs"
    /\ poll' = [poll EXCEPT !.pc = IF poll.usersToEnable = {} THEN "wait" ELSE "loop",
                            !.userIp = "none", !.i = 0, !.fails = 0]
    /\ lastOp' = [op |-> "UpdateBridgedState", ip |-> poll.userIp, bridged |-> TRUE,
                  caller |-> "pollForReenabledUsers", fails |-> poll.fails,
                  returned |-> TRUE, err |-> "sql: database is closed"]
    /\ UNCHANGED <<auxVars, static_ips, active, customers, rules, sync, agg, evLeft, topLeft, startOK>>

\* The system after startup with the capture at its end: the packet loop is
\* about to finish, the poller runs, a shutdown signal may arrive or not.
InitShutdown ==
    /\ static_ips = OwnAddress
    /\ active = {}
    /\ customers \in InitCustomers
    /\ rules = [ip \in IPs |-> IF customers[static_ips[ip]].bridged THEN 0 ELSE 1]
    /\ sync = [SyncFresh EXCEPT !.pc = "done"]
    /\ poll = [PollFresh EXCEPT !.pc = "wait"]
    /\ agg = [ip \in IPs |-> AggFresh]
    /\ evLeft = 0
    /\ topLeft = MaxTopUps
    /\ lastOp = NoOp
    /\ startOK = FALSE
    /\ stop = StopFresh
    /\ pure = NoPure
    /\ dns = DnsIdle
    /\ ingress = [IngressFresh EXCEPT !.left = 0]
    /\ FlowIdle

\* the signal goroutine, the poller's calls of iptables and the external
\* writer go on until the process is over; the poller's calls of the store
\* succeed or fail as above while the handle is open
NextShutdown ==
    \/ CloseCapture
    \/ MainWait
    \/ Cleanup
    \/ MainReturn
    \/ ~ProcessEnded /\ (OnStop \/ PollStop \/ PollDisable \/ TopUp)
    \/ ~DbClosed /\ (PollTick \/ PollBridged \/ PollBridgedCommitFails)
    \/ PollTickClosed
    \/ PollBridgedClosed

SpecShutdown == InitShutdown /\ [][NextShutdown]_vars

\* ------------------------------------------------------------------ properties
Mapped(ip) == static_ips[ip] # NoImsi
Account(ip) == customers[static_ips[ip]]

\* no commit, no enforcement, no poller round and no reconciliation in progress
Quiescent ==
    /\ Running
    /\ poll.pc = "wait"
    /\ \A ip \in IPs : agg[ip].pc \in {"absent", "select"}

\* C1: a flush whose commit returned current <= 0 with prior > 0 has called
\* enable_block and then UpdateBridgedState(ip, false) by the time
\* LogUserPeriodic returns, that is before the task takes its next event or tick.
C1_BlockOnExhaustion ==
    (lastOp.op = "LogUserPeriodic" /\ lastOp.cur <= 0 /\ lastOp.prior > 0)
        => /\ lastOp.enf = <<"enable_block", "UpdateBridgedState">>
           /\ agg[lastOp.ip].pc = "select"

C1_Witness ==
    /\ lastOp.op = "LogUserPeriodic"
    /\ lastOp.cur <= 0
    /\ lastOp.prior > 0
    /\ lastOp.enf = <<"enable_block", "UpdateBridgedState">>

\* C2: started with every zero-balance subscriber blocked, whenever no commit
\* and no poller round is in progress every subscriber address whose account
\* has data_balance 0 has the forwarding block installed.
C2_ZeroBalanceBlocked ==
    (startOK /\ Quiescent)
        => \A ip \in IPs : (Mapped(ip) /\ Account(ip).data_balance = 0) => rules[ip] > 0

\* C3: whenever nothing is in progress, for every enabled subscriber the block
\* rule is installed if and only if the persisted bridged flag is false.
C3_FilterMatchesBridged ==
    Quiescent
        => \A ip \in IPs : (Mapped(ip) /\ Account(ip).enabled)
                              => (rules[ip] > 0 <=> ~Account(ip).bridged)

\* C4: the committed raw_up and raw_down of an account never decrease.
C4_CountersMonotonic ==
    [][\A imsi \in IMSIs : /\ customers'[imsi].raw_up >= customers[imsi].raw_up
                           /\ customers'[imsi].raw_down >= customers[imsi].raw_down]_vars

\* C5: a successful LogUsage commit stores a data_balance >= 0, and exactly 0
\* when the usage exceeds the balance.
C5_BalanceClamped ==
    (lastOp.op = "LogUsage" /\ lastOp.err = "ok")
        => /\ Account(lastOp.ip).data_balance >= 0
           /\ lastOp.post.data_balance = Account(lastOp.ip).data_balance
           /\ (lastOp.up + lastOp.down > lastOp.prior) => Account(lastOp.ip).data_balance = 0

C5_Witness ==
    /\ lastOp.op = "LogUsage"
    /\ lastOp.err = "ok"
    /\ lastOp.up + lastOp.down > lastOp.prior
    /\ lastOp.prior > 0
    /\ Account(lastOp.ip).data_balance = 0

\* C6: a successful LogUsage(ip, up, down) leaves the counters at their values
\* before this commit plus up and down, returns as current_balance the stored
\* balance max(prior - up - down, 0), and as prior_balance the balance stored
\* immediately before this commit.
C6_CommitExact ==
    (lastOp.op = "LogUsage" /\ lastOp.err = "ok")
        => /\ Account(lastOp.ip).raw_up = lastOp.pre.raw_up + lastOp.up
           /\ Account(lastOp.ip).raw_down = lastOp.pre.raw_down + lastOp.down
           /\ lastOp.cur = Account(lastOp.ip).data_balance
           /\ lastOp.cur = Max(lastOp.prior - lastOp.up - lastOp.down, 0)
           /\ lastOp.prior = lastOp.pre.data_balance

\* C7: LogUsage begins at most three transactions, returns at the first commit
\* that succeeds, returns TransactionLost exactly when three commits failed, and
\* returns in the attempt in which a lookup misses or a statement fails.
C7_BoundedRetry ==
    lastOp.op = "LogUsage"
        => /\ lastOp.attempts <= 3
           /\ lastOp.err = "TransactionLost" <=> lastOp.fails = 3
           /\ lastOp.err = "TransactionLost" => lastOp.attempts = 3
           /\ lastOp.err \in {"ok", "NotFound", "BackendError"}
                 => lastOp.attempts = lastOp.fails + 1
           /\ agg[lastOp.ip].pc \notin {"lu_read", "lu_commit"}

C7_Witness ==
    /\ lastOp.op = "LogUsage"
    /\ lastOp.err = "TransactionLost"
    /\ lastOp.fails = 3

ToppedUp(ip) ==
    /\ Mapped(ip)
    /\ Account(ip).enabled
    /\ Account(ip).data_balance > 0
    /\ ~Account(ip).bridged

\* a commit of the poller's UpdateBridgedState(ip, true) has just stored
\* bridged = true; pollForReenabledUsers reaches it only after disable_block(ip)
PollerRestored(ip) ==
    /\ Mapped(ip)
    /\ lastOp.op = "UpdateBridgedState"
    /\ lastOp.caller = "pollForReenabledUsers"
    /\ lastOp.ip = ip
    /\ Account(ip).bridged

\* C8: an enabled subscriber with data_balance > 0 and bridged = false is
\* eventually served by the poller (disable_block(ip), then the persisted
\* bridged flag becomes true), unless it does not stay so because a usage
\* commit takes its balance to 0 first.
C8_TopupRestores ==
    \A ip \in IPs :
        ToppedUp(ip) ~> (PollerRestored(ip) \/ (Mapped(ip) /\ Account(ip).data_balance = 0))

C8_Witness == \E ip \in IPs : PollerRestored(ip) /\ rules[ip] = 0 /\ topLeft = 0

\* C9: when the startup reconciliation completes it has made exactly one
\* effector call per subscriber of QueryGlobalBridgedState (disable_block if
\* bridged, enable_block if not), none for any other address, and the block
\* rule of each of them is installed if and only if bridged is false, whatever
\* rules the chain held when the process started.
SyncComplete == sync.pc = "loop" /\ sync.todo = {}

C9_Reconciled ==
    SyncComplete
        => /\ \A u \in sync.storedState :
                /\ sync.calls[u.Addr] =
                      <<IF u.Bridged THEN "disable_block" ELSE "enable_block">>
                /\ rules[u.Addr] > 0 <=> ~u.Bridged
                /\ u.Bridged = Account(u.Addr).bridged
           /\ \A ip \in IPs : (\A u \in sync.storedState : u.Addr # ip) => sync.calls[ip] = <<>>

\* C10: the FORWARD chain never holds more than one block rule for an address:
\* enable_block on a blocked address inserts nothing, disable_block on an
\* address without a rule leaves the chain as it is.
C10_AtMostOneRule ==
    /\ \A ip \in IPs : rules[ip] <= 1
    /\ (lastOp.op = "enable_block" /\ lastOp.outcome = "already_present") => rules[lastOp.ip] = 1
    /\ (lastOp.op = "disable_block" /\ lastOp.outcome = "delete_absent") => rules[lastOp.ip] = 0

\* C11: while an enforcement whose enable_block failed is running, the persisted
\* bridged flag of its subscriber is not changed from true to false.
C11_NoBlockRecordedOnFailure ==
    [][\A ip \in IPs :
          (Mapped(ip) /\ agg[ip].enableErr /\ Account(ip).bridged)
             => customers'[static_ips[ip]].bridged]_vars

\* the thresholds a commit crossed: the balance was above, and is now at or below
Crossed(cur, prior) == { t \in {0, OneMB, FiveMB, TenMB} : cur <= t /\ prior > t }

LowestCrossed(cur, prior) ==
    CHOOSE t \in Crossed(cur, prior) : \A u \in Crossed(cur, prior) : t <= u

RuleOf(t) ==
    CASE t = 0 -> "block" [] t = OneMB -> "lt1MB" [] t = FiveMB -> "lt5MB" [] t = TenMB -> "lt10MB"

\* C12: verifyBalance fires at most one rule per commit: none when current is
\* above 10 MB or no threshold was crossed, otherwise only the rule of the lowest
\* threshold crossed, and the block rule only for current <= 0 with prior > 0.
C12_OneRulePerCommit ==
    (pure.fn = "verifyBalance" /\ pure.done)
        => /\ Len(pure.fired) <= 1
           /\ pure.cur > TenMB => pure.fired = <<>>
           /\ Crossed(pure.cur, pure.prior) = {} => pure.fired = <<>>
           /\ Crossed(pure.cur, pure.prior) # {}
                 => pure.fired = <<RuleOf(LowestCrossed(pure.cur, pure.prior))>>
           /\ pure.fired = <<"block">> <=> (pure.cur <= 0 /\ pure.prior > 0)

\* a commit that takes the balance from above 10 MB to zero fires the block only
C12_Witness ==
    /\ pure.fn = "verifyBalance"
    /\ pure.done
    /\ pure.prior > TenMB
    /\ pure.cur = 0
    /\ pure.fired = <<"block">>

\* C13: a subscriber task that waits for its next event has no outstanding
\* extern usage that reaches the committed balance of a subscriber with balance:
\* it has committed such usage before it takes another event.
C13_FlushBeforeNextEvent ==
    \A ip \in IPs :
        (Mapped(ip) /\ agg[ip].pc = "select" /\ Account(ip).data_balance > 0)
            => agg[ip].extUp + agg[ip].extDown < Account(ip).data_balance

\* C16: a five-tuple and its reverse have the same canonical form, which is one
\* of the two, loopback tuples and tuples with equal ports included.
C16_CanonicalOfReverse ==
    (pure.fn = "MakeCanonical" /\ pure.done)
        => /\ pure.out = pure.outReverse
           /\ pure.out \in {pure.t, Reverse(pure.t)}

\* a loopback tuple that MakeCanonical has to flip
C16_Witness ==
    /\ pure.fn = "MakeCanonical"
    /\ pure.done
    /\ pure.t.nsrc = pure.t.ndst
    /\ pure.t.tsrc > pure.t.tdst
    /\ pure.out = Reverse(pure.t)
    /\ pure.outReverse = Reverse(pure.t)

\* a five-tuple and its reverse: the two directions of one canonical flow
BothWays(t) == {t, Reverse(t)}

RECURSIVE SumOver(_, _)
SumOver(f, S) ==
    IF S = {} THEN 0
    ELSE LET x == CHOOSE y \in S : TRUE IN f[x] + SumOver(f, S \ {x})

\* payload bytes of the packets classified into the flow of t
ObservedBytes(t) == SumOver(observed, BothWays(t))

\* bytes_a_to_b + bytes_b_to_a over the flowlogs rows of the flow of t
LoggedBytes(t) == SumOver([x \in FiveTuples |-> flowlogs[x].ab + flowlogs[x].ba], BothWays(t))

\* bytes handed to LogFlowPeriodic goroutines that have not inserted their row
PendingBytes(t) ==
    SumOver([i \in 1..Len(writers) |->
                IF writers[i].flow \in BothWays(t)
                THEN writers[i].bytesAB + writers[i].bytesBA ELSE 0],
            1..Len(writers))

\* bytes in the counters of the flow tasks
CountedBytes(t) ==
    SumOver([c \in FlowChans |->
                IF flowTask[c].flow \in BothWays(t)
                THEN flowTask[c].bytesAB + flowTask[c].bytesBA ELSE 0],
            FlowChans)

\* the event sendToFlowHandler has not handed over yet
InHandBytes(t) == IF ingress.event.flow \in BothWays(t) THEN ingress.event.amount ELSE 0

\* every flow task has terminated, no writer is pending and no hand-over to a
\* flow task is under way: an event still in the hand of sendToFlowHandler is
\* one whose send has panicked
FlowsTerminated ==
    /\ \A c \in FlowChans : flowTask[c].pc \in {"unmade", "exited"}
    /\ writers = <<>>
    /\ ingress.event # NoEvent => fault.panic

\* C14: as long as no flow-log insert has failed, the bytes observed for a
\* canonical flow are exactly those in its FlowLog rows, in pending writers, in
\* the counters of its flow task and in the event being handed over; and once
\* all flow tasks have terminated and the writers are done the rows sum to the
\* observed payload bytes: nothing is dropped at flush or reclamation, nothing
\* is logged twice.
C14_ByteConservation ==
    ~fault.logFlowErr
        => \A t \in FiveTuples :
              /\ ObservedBytes(t) = LoggedBytes(t) + PendingBytes(t) + CountedBytes(t)
                                        + InHandBytes(t)
              /\ FlowsTerminated => LoggedBytes(t) = ObservedBytes(t)

\* the flow task is in its loop: it has not returned at an idle tick
LiveFlowTask(c) == flowTask[c].pc \in {"select", "load", "store", "send"}

\* C15: at most one flow task per canonical five-tuple is in its loop, it is the
\* task registered under the canonical form of both directions, and an event
\* handed over while it is live, in either direction, goes to that task.
C15_OneTaskPerFlow ==
    /\ \A c, d \in FlowChans :
          (LiveFlowTask(c) /\ LiveFlowTask(d) /\ flowTask[d].flow \in BothWays(flowTask[c].flow))
              => c = d
    /\ \A c \in FlowChans :
          LiveFlowTask(c)
              => /\ flowHandlers[MakeCanonical(flowTask[c].flow)] = c
                 /\ flowHandlers[MakeCanonical(Reverse(flowTask[c].flow))] = c
                 /\ (ingress.pc = "send" /\ ingress.event.flow \in BothWays(flowTask[c].flow))
                       => ingress.flowChannel = c

\* a live task has counted an event of its first direction and one of the reverse
C15_Witness ==
    \E c \in FlowChans :
        /\ LiveFlowTask(c)
        /\ flowTask[c].flow # Reverse(flowTask[c].flow)
        /\ flowTask[c].bytesAB > 0
        /\ flowTask[c].bytesBA > 0
        /\ observed[flowTask[c].flow] > 0
        /\ observed[Reverse(flowTask[c].flow)] > 0

\* the subscriber task is running and has not returned at an idle tick: it
\* still takes what is sent on its channel
LiveUserTask(u) == userTask[u].pc \in {"Init", "select", "LogUserPeriodic"}

\* flow task c missed the lookup, lost the insertion (LoadOrStore reported
\* existed) and is about to send its event on the winner's channel
LoserSends(c) == flowTask[c].pc = "send" /\ flowTask[c].existed

\* C17: whatever the interleaving of the flow tasks' lookups and insertions,
\* at most one subscriber task per address is running and it is the one
\* installed in the map; a flow task that lost the insertion holds the channel
\* of the task spawned for the event's address, and that task is running, so
\* the event is delivered to it.
C17_AtomicGetOrCreate ==
    /\ \A u, v \in UserChans :
          (LiveUserTask(u) /\ LiveUserTask(v) /\ userTask[u].user = userTask[v].user) => u = v
    /\ \A u \in UserChans :
          LiveUserTask(u) => userAggregators[userTask[u].user] = u
    /\ \A c \in FlowChans :
          LoserSends(c)
              => /\ LiveUserTask(flowTask[c].userChannel)
                 /\ userTask[flowTask[c].userChannel].user = NextSend(flowTask[c].sends).user
                 /\ userAggregators[NextSend(flowTask[c].sends).user] = flowTask[c].userChannel

\* every flow task and subscriber task has terminated, every flow-log writer
\* has finished, and processingGroup.Wait() has returned
Drained ==
    /\ ingress.pc = "exit"
    /\ \A c \in FlowChans : flowTask[c].pc \in {"unmade", "exited"}
    /\ \A u \in UserChans : userTask[u].pc \in {"unmade", "exited"}
    /\ writers = <<>>

\* C18: once the capture source is closed, every flow task, subscriber task and
\* flow-log writer eventually finishes and the supervisor's wait returns.
C18_ShutdownDrains == (ingress.pc = "wait") ~> Drained

C20_ReportsCommitFailure ==
    (lastOp.op = "UpdateBridgedState" /\ lastOp.returned)
        => /\ lastOp.fails = CommitAttempts => lastOp.err = "TransactionLost"
           /\ lastOp.err = "nil" => lastOp.fails < CommitAttempts

\* the call under study made at least one commit and has returned nil
BridgedCallSucceeded ==
    /\ pure.fn = "UpdateBridgedState"
    /\ pure.done
    /\ pure.err = "nil"
    /\ pure.fails < CommitAttempts

\* QueryGlobalBridgedState() holds an entry for the address with this flag
QueryHolds(ip, bridged) == [Addr |-> ip, Bridged |-> bridged] \in QueryGlobalBridgedState

\* C21 as stated: for every address with a static_ips row, a successful
\* UpdateBridgedState(ip, b) followed by QueryGlobalBridgedState() with no
\* writer in between returns an entry for ip whose flag is b.
C21_RoundTripAnyMapped ==
    (BridgedCallSucceeded /\ Mapped(pure.ip)) => QueryHolds(pure.ip, pure.bridged)

\* C21 amended: the round trip holds for the addresses whose account is
\* enabled: after a call of UpdateBridgedState(ip, b) that committed,
\* QueryGlobalBridgedState() holds the entry (ip, b) and no entry (ip, ~b);
\* an address whose account is disabled has no entry at all.
C21_RoundTripEnabled ==
    (BridgedCallSucceeded /\ Mapped(pure.ip)) =>
        IF Account(pure.ip).enabled
        THEN /\ QueryHolds(pure.ip, pure.bridged)
             /\ ~QueryHolds(pure.ip, ~pure.bridged)
        ELSE \A e \in QueryGlobalBridgedState : e.Addr # pure.ip

\* a call that committed once and failed twice, read back for an enabled account
C21_Witness ==
    /\ BridgedCallSucceeded
    /\ pure.fails = CommitAttempts - 1
    /\ Account(pure.ip).enabled
    /\ ~pure.bridged
    /\ QueryHolds(pure.ip, FALSE)

\* the answers rows of a triple
AnswerRows(key) == { r \in dns.answers : r.key = key }

\* the dnsResponses rows a call added
ResponsesOf(c) == { r \in dns.dnsResponses : r.call = c }

\* the triples logged with success so far
LoggedTriples == { dns.calls[c].key : c \in { d \in DnsCallers : dns.calls[d].err = "nil" } }

\* C22: whatever the interleaving and the failed commits, answers holds at
\* most one row per triple and exactly one for every triple logged with
\* success; a call that returned nil added exactly one dnsResponses row, which
\* references the answers row of its triple; a call that returned an error
\* added no row; a dnsResponses row never references a missing answers row.
C22_DnsDedupe ==
    /\ \A k \in Triples : Cardinality(AnswerRows(k)) <= 1
    /\ \A k \in LoggedTriples : Cardinality(AnswerRows(k)) = 1
    /\ \A r \in dns.dnsResponses : \E a \in dns.answers : a.idx = r.answer
    /\ \A c \in DnsCallers :
          /\ dns.calls[c].err = "nil" =>
                /\ Cardinality(ResponsesOf(c)) = 1
                /\ \A r \in ResponsesOf(c) :
                      \E a \in AnswerRows(dns.calls[c].key) : a.idx = r.answer
          /\ dns.calls[c].err # "nil" => ResponsesOf(c) = {}
    /\ (\A c \in DnsCallers : dns.calls[c].pc = "returned") =>
          \A a \in dns.answers : a.idx = 1 \/ a.key \in LoggedTriples

\* two calls with the same new triple both returned nil, one of them after a
\* failed commit: one answers row, two dnsResponses rows
C22_Witness ==
    /\ dns.calls[1].key = 2
    /\ dns.calls[2].key = 2
    /\ dns.calls[1].err = "nil"
    /\ dns.calls[2].err = "nil"
    /\ dns.calls[1].i + dns.calls[2].i > 0
    /\ Cardinality(AnswerRows(2)) = 1
    /\ Cardinality(dns.dnsResponses) = 2

\* C23: a flow task processes the events of its canonical flow in the order
\* the packet loop emitted them, and a subscriber aggregator processes the usage
\* events of one flow task in the order that task sent them: no task ever
\* processes an event older than one it has processed.
C23_ArrivalOrder == processed.inOrder

\* one flow task has processed two events of its flow, and one aggregator both
\* usage events (up, then down) of a packet a subscriber sent to itself
C23_Witness ==
    \E t \in CapturedTuples :
        /\ t.nsrc = t.ndst
        /\ User(t.nsrc)
        /\ processed.flow[MakeCanonical(t)] = MaxPackets
        /\ processed.user[<<MakeCanonical(t), t.nsrc>>] = 2 * MaxPackets + 2
        /\ processed.inOrder

\* C24: the ShouldLogNow that aggregateUser calls returns true exactly when
\* the outstanding bytes reach the cached balance and that balance is
\* positive; with a cached balance of 0 it returns false for every amount.
C24_PositiveBalanceTest ==
    (pure.fn = "ShouldLogNow" /\ pure.done) =>
        /\ pure.out <=> (pure.outstandingData >= pure.DataBalance /\ pure.DataBalance > 0)
        /\ pure.DataBalance = 0 => ~pure.out

\* C25: when a flush that ShouldLogNow started has committed (its status shows
\* the balance the row had) and LogUserPeriodic has returned, the balance the
\* aggregator caches is the current balance that commit returned.
C25_CacheRefreshed ==
    \A ip \in IPs :
        (/\ lastOp.op = "LogUserPeriodic"
         /\ lastOp.ip = ip
         /\ lastOp.immediate
         /\ lastOp.prior > 0
         /\ agg[ip].pc = "select")
            => agg[ip].DataBalance = lastOp.cur

\* C26: no send ever targets the channel of a task that has terminated: a
\* sender that holds a channel (the packet loop for a flow task, a flow task
\* for a subscriber task) never finds it closed, and no send panics.
C26_NoSendToTerminated ==
    /\ ~fault.panic
    /\ ingress.pc = "send" => ~FlowChannelClosed(ingress.flowChannel)
    /\ \A c \in FlowChans :
          flowTask[c].pc = "send" => ~UserChannelClosed(flowTask[c].userChannel)

\* C27: a call of UpdateBridgedState stops at its first successful commit:
\* it commits at most one transaction, and when another caller's
\* UpdateBridgedState with the opposite value has committed after that commit,
\* the row holds the other caller's value once the call has returned.
C27_StopsAtFirstCommit ==
    (pure.fn = "UpdateBridgedState" /\ pure.done /\ Mapped(pure.ip)) =>
        /\ pure.i - pure.fails <= 1
        /\ pure.other = "after" => Account(pure.ip).bridged = ~pure.bridged

\* C28: a top-up committed between the read and the write of a LogUsage
\* transaction is kept: the balance that LogUsage stores is the balance the
\* row held just before this commit, top-up included, minus the usage, clamped
\* at 0.
C28_TopUpNotLost ==
    (/\ lastOp.op = "LogUsage"
     /\ lastOp.err = "ok"
     /\ lastOp.pre.data_balance > lastOp.prior)
        => Account(lastOp.ip).data_balance =
              Max(lastOp.pre.data_balance - lastOp.up - lastOp.down, 0)

\* C29: a LogUsage commit leaves bridged and enabled as the row held them just
\* before the commit, whoever stored them since LogUsage read the row.
C29_FlagsUntouched ==
    (lastOp.op = "LogUsage" /\ lastOp.err = "ok")
        => /\ Account(lastOp.ip).bridged = lastOp.pre.bridged
           /\ Account(lastOp.ip).enabled = lastOp.pre.enabled

\* C30: a flush whose LogUsage failed (NotFound, TransactionLost or a backend
\* error) ends with the four counters of the aggregator at zero, with no call
\* of the effector and no UpdateBridgedState made for it, and with the
\* aggregator back in its select, where it takes the next event.
C30_FailedFlushDiscards ==
    (lastOp.op = "LogUserPeriodic"
        /\ lastOp.err \in {"NotFound", "TransactionLost", "BackendError"})
        => /\ lastOp.enf = <<>>
           /\ lastOp.cur = 0
           /\ lastOp.prior = 0
           /\ agg[lastOp.ip].pc = "select"
           /\ agg[lastOp.ip].localUp = 0
           /\ agg[lastOp.ip].localDown = 0
           /\ agg[lastOp.ip].extUp = 0
           /\ agg[lastOp.ip].extDown = 0

\* a flush of a mapped subscriber has ended after three failed commits
C30_Witness ==
    /\ lastOp.op = "LogUserPeriodic"
    /\ lastOp.err = "TransactionLost"
    /\ Mapped(lastOp.ip)
    /\ agg[lastOp.ip].pc = "select"
    /\ agg[lastOp.ip].extUp + agg[lastOp.ip].extDown = 0

\* C31: a LogUsage call that returns an error has written nothing: every step
\* of a LogUsage call other than its successful commit (the lookup, the read, a
\* failed statement, a failed commit) leaves every account row as it was, and a
\* call returns at its first successful commit, with no error.
C31_ErrorLeavesRow ==
    [][\A ip \in IPs :
          (/\ agg[ip].pc \in {"lu_read", "lu_commit"}
           /\ agg'[ip] # agg[ip]
           /\ ~(lastOp'.op = "LogUsage" /\ lastOp'.err = "ok"))
              => customers' = customers]_vars

\* a flush with bytes to bill has returned TransactionLost and the row of the
\* account still has the counters and the balance of the start
C31_Witness ==
    /\ lastOp.op = "LogUsage"
    /\ lastOp.err = "TransactionLost"
    /\ lastOp.ctx = "flush"
    /\ lastOp.up + lastOp.down > 0
    /\ Mapped(lastOp.ip)
    /\ Account(lastOp.ip).raw_up = 0
    /\ Account(lastOp.ip).raw_down = 0
    /\ Account(lastOp.ip).data_balance > 0

\* C32: only extern bytes are billed. A LogUsage call of an aggregator carries
\* its extern counters (zero bytes for the call of Init); its commit adds these
\* to raw_up and raw_down and takes them from data_balance, clamped at 0, so
\* local bytes reach no column; when a flush has ended the four counters of
\* the task are zero.
C32_OnlyExternBilled ==
    /\ \A ip \in IPs :
          /\ agg[ip].ctx = "flush" => /\ agg[ip].up = agg[ip].extUp
                                      /\ agg[ip].down = agg[ip].extDown
          /\ agg[ip].ctx = "init" => agg[ip].up + agg[ip].down = 0
    /\ (lastOp.op = "LogUsage" /\ lastOp.err = "ok") =>
          /\ lastOp.up = agg[lastOp.ip].extUp
          /\ lastOp.down = agg[lastOp.ip].extDown
          /\ lastOp.post.raw_up = lastOp.pre.raw_up + agg[lastOp.ip].extUp
          /\ lastOp.post.raw_down = lastOp.pre.raw_down + agg[lastOp.ip].extDown
          /\ lastOp.post.data_balance =
                Max(lastOp.pre.data_balance - agg[lastOp.ip].extUp - agg[lastOp.ip].extDown, 0)
    /\ lastOp.op = "LogUserPeriodic" =>
          /\ agg[lastOp.ip].localUp = 0
          /\ agg[lastOp.ip].localDown = 0
          /\ agg[lastOp.ip].extUp = 0
          /\ agg[lastOp.ip].extDown = 0

\* a flush of local bytes only has committed and the row is as it was
C32_Witness ==
    /\ lastOp.op = "LogUsage"
    /\ lastOp.err = "ok"
    /\ lastOp.ctx = "flush"
    /\ agg[lastOp.ip].localUp + agg[lastOp.ip].localDown > 0
    /\ agg[lastOp.ip].extUp + agg[lastOp.ip].extDown = 0
    /\ lastOp.post = lastOp.pre

\* the extern bytes an aggregator holds
Outstanding(a) == a.extUp + a.extDown

\* a flush starts with all extern bytes held, carries the same bytes through
\* the retries of its one LogUsage call, and ends with none held
SubmittedOnce ==
    [][\A ip \in IPs :
          /\ (agg[ip].pc = "select" /\ agg'[ip].ctx = "flush")
                => agg'[ip].up + agg'[ip].down = Outstanding(agg'[ip])
          /\ (agg[ip].ctx = "flush" /\ agg'[ip].ctx = "flush")
                => /\ agg'[ip].up = agg[ip].up
                   /\ agg'[ip].down = agg[ip].down
                   /\ Outstanding(agg'[ip]) = Outstanding(agg[ip])
          /\ (agg[ip].ctx = "flush" /\ agg'[ip].ctx # "flush")
                => /\ agg'[ip].pc = "select"
                   /\ Outstanding(agg'[ip]) = 0]_vars

\* a commit of LogUsage lowers the stored balance by at most the bytes it carries
DecreaseBounded ==
    (lastOp.op = "LogUsage" /\ lastOp.err = "ok")
        => lastOp.post.data_balance >= lastOp.pre.data_balance - lastOp.up - lastOp.down

\* C33: every extern byte an aggregator receives is submitted to LogUsage
\* exactly once (each flush submits all bytes held, once, and leaves none), so
\* the balance of an account never decreases by more than the extern bytes
\* submitted.
C33_BilledExactlyOnce == SubmittedOnce /\ []DecreaseBounded

\* C34: the database handle is closed only after the topup poller has
\* terminated and all flow tasks, subscriber tasks and flow-log writers have
\* finished, and the poller issues no database operation once it is closed.
C34_CloseAfterTasks ==
    /\ [](DbClosed => (poll.pc = "stopped" /\ processingGroup = 0 /\ writers = <<>>))
    /\ [][DbClosed => (poll' = poll /\ customers' = customers)]_vars

\* C35: classifyPacket forwards a FlowEvent only for a packet with an absent
\* or Ethernet link layer, a network layer, a transport layer and a transport
\* protocol other than the sentinel 255; a packet whose network layer is
\* neither IPv4 nor IPv6 is not forwarded
C35_ForwardsOnlySupported ==
    (pure.fn = "classifyPacket" /\ pure.done /\ pure.out.sent)
        => /\ pure.p.link \in {"none", "Ethernet"}
           /\ pure.p.net \in {"IPv4", "IPv6"}
           /\ pure.p.transport
           /\ pure.out.TransportProtocol # UnhandledProtocol

\* the events of a sequence that carry one of the given traffic types
EventsOfTypes(evs, types) == SelectSeq(evs, LAMBDA e : e.trafficType \in types)

\* C36: for a flow event of amount n, a subscriber network source gets exactly
\* one up event of n (LOCAL_UP when the destination is local, else EXT_UP), a
\* subscriber network destination gets exactly one down event of n (LOCAL_DOWN
\* when the source is local, else EXT_DOWN), and nothing else is sent; the
\* events are fixed by the network endpoints and the amount alone
C36_UsageEvents ==
    (pure.fn = "generateUsageEvents" /\ pure.done)
        => LET f == pure.flow
               ups == EventsOfTypes(pure.out, {"LOCAL_UP", "EXT_UP"})
               downs == EventsOfTypes(pure.out, {"LOCAL_DOWN", "EXT_DOWN"})
               up == [user |-> f.nsrc, amount |-> pure.amount,
                      trafficType |-> IF Local(f.ndst) THEN "LOCAL_UP" ELSE "EXT_UP"]
               down == [user |-> f.ndst, amount |-> pure.amount,
                        trafficType |-> IF Local(f.nsrc) THEN "LOCAL_DOWN" ELSE "EXT_DOWN"]
           IN  /\ ups = (IF User(f.nsrc) THEN <<up>> ELSE <<>>)
               /\ downs = (IF User(f.ndst) THEN <<down>> ELSE <<>>)
               /\ Len(pure.out) = Len(ups) + Len(downs)

\* a subscriber sent to an Internet host from one port to another
C36_Witness ==
    /\ pure.fn = "generateUsageEvents"
    /\ pure.done
    /\ pure.flow.tsrc # pure.flow.tdst
    /\ pure.out = << [user |-> pure.flow.nsrc, amount |-> pure.amount, trafficType |-> "EXT_UP"] >>

\* the bytes of the events of a sequence that go the way of the task's first
\* event (same network source and same transport source), or the other way
RECURSIVE BytesOfDirection(_, _, _)
BytesOfDirection(evs, first, same) ==
    IF evs = <<>> THEN 0
    ELSE LET e == Head(evs)
             isA == e.flow.nsrc = first.flow.nsrc /\ e.flow.tsrc = first.flow.tsrc
         IN  (IF isA = same THEN e.amount ELSE 0) + BytesOfDirection(Tail(evs), first, same)

RECURSIVE RowBytes(_, _)
RowBytes(rows, field) ==
    IF rows = <<>> THEN 0 ELSE Head(rows)[field] + RowBytes(Tail(rows), field)

\* C37: direction A of a flow task is the (network source, transport source)
\* of its first event; every event counts into bytesAB when its network and
\* transport source are those of A and into bytesBA otherwise, and the rows
\* carry A as their source address and port
C37_DirectionOfFirstEvent ==
    (pure.fn = "flowHandler" /\ pure.received # <<>>)
        => LET first == pure.received[1]
           IN  /\ pure.bytesAB + RowBytes(pure.rows, "bytesAB")
                    = BytesOfDirection(pure.received, first, TRUE)
               /\ pure.bytesBA + RowBytes(pure.rows, "bytesBA")
                    = BytesOfDirection(pure.received, first, FALSE)
               /\ \A i \in 1..Len(pure.rows) :
                    /\ pure.rows[i].flow.nsrc = first.flow.nsrc
                    /\ pure.rows[i].flow.tsrc = first.flow.tsrc

\* A:p -> B:q of 600 bytes, then B:q -> A:p of 400 bytes, then the tick: one
\* row with 600 bytes A to B, 400 bytes B to A and A as its source
C37_Witness ==
    /\ pure.fn = "flowHandler"
    /\ Len(pure.received) = 2
    /\ pure.received[1].amount = 600
    /\ pure.received[2].amount = 400
    /\ pure.received[1].flow.nsrc # pure.received[1].flow.ndst
    /\ pure.received[1].flow.tsrc # pure.received[1].flow.tdst
    /\ pure.received[2].flow = Reverse(pure.received[1].flow)
    /\ Len(pure.rows) = 1
    /\ pure.rows[1].bytesAB = 600
    /\ pure.rows[1].bytesBA = 400
    /\ pure.rows[1].flow.nsrc = pure.received[1].flow.nsrc

\* a tick of the task under study, and one at which both counters are zero
TickTaken == pure.fn = "flowHandler" /\ pure.pc = "select" /\ pure'.received = pure.received
IdleTick == TickTaken /\ pure.bytesAB = 0 /\ pure.bytesBA = 0

\* the rows of the task so far: none has both counts zero, the first starts
\* when the task started, each starts where the one before it stopped and
\* stops later than it starts, and the open interval starts where the last
\* row stopped
RowsContiguous ==
    pure.fn = "flowHandler"
        => /\ \A i \in 1..Len(pure.rows) :
                /\ pure.rows[i].bytesAB + pure.rows[i].bytesBA > 0
                /\ pure.rows[i].start < pure.rows[i].stop
                /\ pure.rows[i].start = (IF i = 1 THEN 0 ELSE pure.rows[i - 1].stop)
           /\ pure.intervalStart = (IF pure.rows = <<>> THEN 0
                                    ELSE pure.rows[Len(pure.rows)].stop)

\* C38: a tick with both counters zero ends the task, removes its map entry
\* and writes no row; any other tick appends exactly one row with the current
\* counters for [interval_start, now], zeroes the counters and makes now the
\* new interval_start; so no row of a task has both counts zero and the rows'
\* intervals are contiguous and do not overlap
C38_TickWritesOneRow ==
    /\ [][IdleTick => /\ pure'.pc = "exited"
                      /\ ~pure'.inMap
                      /\ pure'.rows = pure.rows]_vars
    /\ [][(TickTaken /\ ~IdleTick)
            => /\ Len(pure'.rows) = Len(pure.rows) + 1
               /\ SubSeq(pure'.rows, 1, Len(pure.rows)) = pure.rows
               /\ LET row == pure'.rows[Len(pure'.rows)]
                  IN  /\ row.bytesAB = pure.bytesAB
                      /\ row.bytesBA = pure.bytesBA
                      /\ row.start = pure.intervalStart
                      /\ row.stop > row.start
                      /\ pure'.intervalStart = row.stop
               /\ pure'.bytesAB = 0
               /\ pure'.bytesBA = 0
               /\ pure'.pc = "select"
               /\ pure'.inMap]_vars
    /\ []RowsContiguous

\* two rows of one task, then the idle tick that ends it
C38_Witness ==
    /\ pure.fn = "flowHandler"
    /\ pure.pc = "exited"
    /\ ~pure.inMap
    /\ Len(pure.rows) = 2
    /\ pure.rows[2].start = pure.rows[1].stop

\* C39: a.SameBidirectionalFlow(b) is true exactly when a and b have the same
\* canonical form; in particular for b the reverse of a, loopback tuples with
\* two different ports included
C39_SameFlowIffSameCanonical ==
    (pure.fn = "SameBidirectionalFlow" /\ pure.done)
        => (pure.out <=> (MakeCanonical(pure.t) = MakeCanonical(pure.other)))

\* C40: in the traffic detector the channel stored in flowHandlers for a flow
\* is the channel its handler receives from, and the ingress never sends on
\* a channel that has no receiver
C40_MailboxHasReceiver ==
    pure.fn = "TrafficDetector"
        => /\ pure.flowHandlers # NoChan => pure.handler[pure.flowHandlers].pc = "select"
           /\ pure.pc = "send" => pure.handler[pure.flowChannel].pc # "unmade"

====
